---- MODULE Spec2Model ----
(***************************************************************************)
(* Model of codex-rs/scripts/mcp_production_test_suite.py: the outcome log *)
(* of MCPProductionTestSuite, its readiness summary, the textual symbol    *)
(* verifier and the sequential suite run; of the skeleton metrics of       *)
(* comprehensive_skeleton_test.py; of OrderService of the Python test      *)
(* suite; and of SkeletonTester.initialize_mcp of                          *)
(* interactive_skeleton_test.py.                                           *)
(***************************************************************************)
EXTENDS Integers, Sequences, FiniteSets, TLC

VARIABLES test_results, passed, failed, summary, pc, v_file, v_claim, v_out,
          project, corpus, exchange, tool_result, caller,
          sk_language, sk_results, sk_summary, orders, tester

vars == <<test_results, passed, failed, summary, pc, v_file, v_claim, v_out,
          project, corpus, exchange, tool_result, caller,
          sk_language, sk_results, sk_summary, orders, tester>>

suite_vars == <<test_results, passed, failed>>

verify_vars == <<v_file, v_claim, v_out>>

call_vars == <<exchange, tool_result, caller>>

skeleton_vars == <<sk_language, sk_results, sk_summary>>

aux_vars == <<orders, tester>>

(***************************************************************************)
(* Bounds                                                                  *)
(***************************************************************************)
\* longest outcome log built by free log_test calls
MaxLog == 5

(***************************************************************************)
(* Outcome log entries                                                     *)
(***************************************************************************)
Severities == {"INFO", "WARNING", "CRITICAL"}

TestNames == {"t1"}

\* a details string: its text and the numbers formatted into it
Details(msg, nums) == [msg |-> msg, nums |-> nums]

TestDetails == {Details("d", <<>>)}

\* the dict appended by log_test
TestOutcome(name, success, details, severity) ==
    [name |-> name, success |-> success, details |-> details, severity |-> severity]

IsCriticalFailure(r) == ~r.success /\ r.severity = "CRITICAL"

IsWarning(r) == ~r.success /\ r.severity = "WARNING"

\* the lists built by the summary
critical_failures(results) == SelectSeq(results, IsCriticalFailure)

warnings(results) == SelectSeq(results, IsWarning)

\* severity_icon of the issue analysis
SeverityIcon(r) ==
    IF r.severity = "CRITICAL" THEN "alarm"
    ELSE IF r.severity = "WARNING" THEN "warning"
    ELSE "info"

IssueList_WarningsOnly(results) ==
    [i \in 1..Len(warnings(results)) |->
        [icon |-> SeverityIcon(warnings(results)[i]),
         name |-> warnings(results)[i].name,
         details |-> warnings(results)[i].details]]

RECURSIVE IssueList(_)
IssueList(results) ==
    IF results = <<>> THEN <<>>
    ELSE (IF ~Head(results).success
          THEN <<[icon |-> SeverityIcon(Head(results)),
                  name |-> Head(results).name,
                  details |-> Head(results).details]>>
          ELSE <<>>) \o IssueList(Tail(results))

\* success_rate >= 80, with success_rate = passed / total * 100 (0 when total = 0)
RateAtLeast80(p, f) == IF p + f > 0 THEN p * 100 >= 80 * (p + f) ELSE FALSE

ReadinessStatus_RateFirst(results, p, f) ==
    IF RateAtLeast80(p, f) THEN "PRODUCTION READY"
    ELSE IF Len(critical_failures(results)) = 0 THEN "MOSTLY READY (Minor Issues)"
    ELSE "NOT READY (Critical Issues)"

ReadinessStatus_Strict(results, p, f) ==
    IF Len(critical_failures(results)) = 0 /\ p + f > 0 /\ p * 100 > 80 * (p + f)
    THEN "PRODUCTION READY"
    ELSE IF Len(critical_failures(results)) = 0 THEN "MOSTLY READY (Minor Issues)"
    ELSE "NOT READY (Critical Issues)"

ReadinessStatus_LastEntry(results, p, f) ==
    IF ~(results # <<>> /\ IsCriticalFailure(results[Len(results)])) /\ RateAtLeast80(p, f)
    THEN "PRODUCTION READY"
    ELSE IF ~(results # <<>> /\ IsCriticalFailure(results[Len(results)]))
    THEN "MOSTLY READY (Minor Issues)"
    ELSE "NOT READY (Critical Issues)"

\* the production readiness assessment
ReadinessStatus(results, p, f) ==
    IF Len(critical_failures(results)) = 0 /\ RateAtLeast80(p, f)
    THEN "PRODUCTION READY"
    ELSE IF Len(critical_failures(results)) = 0 THEN "MOSTLY READY (Minor Issues)"
    ELSE "NOT READY (Critical Issues)"

NoSummary ==
    [total |-> 0, passed |-> 0, failed |-> 0, rate_num |-> 0, rate_den |-> 1,
     critical_failures |-> 0, warnings |-> 0, status |-> "NONE",
     issues |-> <<>>, ret |-> FALSE]

SummaryOf_Unguarded(results, p, f) ==
    [total |-> p + f, passed |-> p, failed |-> f,
     rate_num |-> p * 100,
     rate_den |-> p + f,
     critical_failures |-> Len(critical_failures(results)),
     warnings |-> Len(warnings(results)),
     status |-> ReadinessStatus(results, p, f),
     issues |-> IF f > 0 THEN IssueList(results) ELSE <<>>,
     ret |-> RateAtLeast80(p, f) /\ Len(critical_failures(results)) = 0]

\* everything print_production_summary prints and returns
SummaryOf(results, p, f) ==
    [total |-> p + f, passed |-> p, failed |-> f,
     rate_num |-> IF p + f > 0 THEN p * 100 ELSE 0,
     rate_den |-> IF p + f > 0 THEN p + f ELSE 1,
     critical_failures |-> Len(critical_failures(results)),
     warnings |-> Len(warnings(results)),
     status |-> ReadinessStatus(results, p, f),
     issues |-> IF f > 0 THEN IssueList(results) ELSE <<>>,
     ret |-> RateAtLeast80(p, f) /\ Len(critical_failures(results)) = 0]

(***************************************************************************)
(* Text: a string is a sequence of one-character strings                   *)
(***************************************************************************)
Uppers == <<"A", "B", "C", "D", "E", "F", "G", "H", "I", "J", "K", "L", "M",
            "N", "O", "P", "Q", "R", "S", "T", "U", "V", "W", "X", "Y", "Z">>

Lowers == <<"a", "b", "c", "d", "e", "f", "g", "h", "i", "j", "k", "l", "m",
            "n", "o", "p", "q", "r", "s", "t", "u", "v", "w", "x", "y", "z">>

\* str.lower() on one character; also the folding of re.IGNORECASE
Lower(c) ==
    IF \E i \in 1..Len(Uppers) : Uppers[i] = c
    THEN Lowers[CHOOSE i \in 1..Len(Uppers) : Uppers[i] = c]
    ELSE c

LowerStr(s) == [i \in 1..Len(s) |-> Lower(s[i])]

\* the characters \s matches
IsSpace(c) == c \in {" ", "\t", "\n", "\r"}

\* sub in text
Contains(sub, text) ==
    \E i \in 1..(Len(text) - Len(sub) + 1) : SubSeq(text, i, i + Len(sub) - 1) = sub

\* content.split('\n')
RECURSIVE SplitLines(_)
SplitLines(s) ==
    IF \A i \in 1..Len(s) : s[i] # "\n" THEN <<s>>
    ELSE LET i == CHOOSE k \in 1..Len(s) :
                      s[k] = "\n" /\ \A j \in 1..(k - 1) : s[j] # "\n"
         IN <<SubSeq(s, 1, i - 1)>> \o SplitLines(SubSeq(s, i + 1, Len(s)))

\* '\n'.join(lines)
RECURSIVE JoinLines(_)
JoinLines(ls) ==
    IF ls = <<>> THEN <<>>
    ELSE IF Len(ls) = 1 THEN ls[1]
    ELSE ls[1] \o <<"\n">> \o JoinLines(Tail(ls))

\* a slice bound of a list of length n (a negative bound counts from the end)
SliceBound(n, b) ==
    IF b < 0 THEN (IF n + b < 0 THEN 0 ELSE n + b)
    ELSE IF b > n THEN n ELSE b

\* lines[lo:hi]
PySlice(ls, lo, hi) == SubSeq(ls, SliceBound(Len(ls), lo) + 1, SliceBound(Len(ls), hi))

(***************************************************************************)
(* Regular expressions: a pattern is a sequence of elements, a literal     *)
(* (matched case-insensitively), \s+ or \s*                                *)
(***************************************************************************)
Lit(s) == [t |-> "lit", s |-> s]

WsPlus == [t |-> "ws+", s |-> <<>>]

WsStar == [t |-> "ws*", s |-> <<>>]

RECURSIVE MatchFrom(_, _, _, _)
MatchFrom(pat, k, text, i) ==
    IF k > Len(pat) THEN TRUE
    ELSE LET e == pat[k] IN
         IF e.t = "lit"
         THEN /\ i + Len(e.s) - 1 <= Len(text)
              /\ \A j \in 1..Len(e.s) : Lower(text[i + j - 1]) = Lower(e.s[j])
              /\ MatchFrom(pat, k + 1, text, i + Len(e.s))
         ELSE \E n \in (IF e.t = "ws+" THEN 1 ELSE 0)..(Len(text) - i + 1) :
                  /\ \A j \in 0..(n - 1) : IsSpace(text[i + j])
                  /\ MatchFrom(pat, k + 1, text, i + n)

\* re.search(pattern, text, re.IGNORECASE | re.MULTILINE) is not None
ReSearch(pat, text) == \E i \in 1..(Len(text) + 1) : MatchFrom(pat, 1, text, i)

Kw_class == <<"c", "l", "a", "s", "s">>

Kw_struct == <<"s", "t", "r", "u", "c", "t">>

Kw_interface == <<"i", "n", "t", "e", "r", "f", "a", "c", "e">>

Kw_type == <<"t", "y", "p", "e">>

Kw_export == <<"e", "x", "p", "o", "r", "t">>

Kw_function == <<"f", "u", "n", "c", "t", "i", "o", "n">>

Kw_def == <<"d", "e", "f">>

Kw_fn == <<"f", "n">>

Kw_default == <<"d", "e", "f", "a", "u", "l", "t">>

Kw_const == <<"c", "o", "n", "s", "t">>

Kw_let == <<"l", "e", "t">>

Kw_pub == <<"p", "u", "b">>

Kw_private == <<"p", "r", "i", "v", "a", "t", "e">>

Kw_public == <<"p", "u", "b", "l", "i", "c">>

Kw_var == <<"v", "a", "r">>

Kw_mod == <<"m", "o", "d">>

Kw_module == <<"m", "o", "d", "u", "l", "e">>

Kw_namespace == <<"n", "a", "m", "e", "s", "p", "a", "c", "e">>

Kind_class == Kw_class

Kind_function == Kw_function

Kind_method == <<"m", "e", "t", "h", "o", "d">>

Kind_variable == <<"v", "a", "r", "i", "a", "b", "l", "e">>

Kind_module == Kw_module

PatternKinds == {Kind_class, Kind_function, Kind_method, Kind_variable, Kind_module}

\* keyword \s+ name
KwName(kw, name) == <<Lit(kw), WsPlus, Lit(name)>>

\* the patterns dict, re.escape(symbol_name) being the literal name
Patterns(kind, name) ==
    IF kind = Kind_class THEN
        << KwName(Kw_class, name), KwName(Kw_struct, name), KwName(Kw_interface, name),
           KwName(Kw_type, name),
           <<Lit(Kw_export), WsPlus, Lit(Kw_type), WsPlus, Lit(name)>>,
           <<Lit(Kw_export), WsPlus, Lit(Kw_interface), WsPlus, Lit(name)>> >>
    ELSE IF kind = Kind_function THEN
        << KwName(Kw_function, name), KwName(Kw_def, name), KwName(Kw_fn, name),
           <<Lit(Kw_export), WsPlus, Lit(Kw_default), WsPlus, Lit(Kw_function), WsPlus, Lit(name)>>,
           <<Lit(Kw_export), WsPlus, Lit(Kw_function), WsPlus, Lit(name)>>,
           <<Lit(Kw_const), WsPlus, Lit(name), WsStar, Lit(<<"=">>)>>,
           <<Lit(Kw_let), WsPlus, Lit(name), WsStar, Lit(<<"=">>)>> >>
    ELSE IF kind = Kind_method THEN
        << <<Lit(name), WsStar, Lit(<<"(">>)>>,
           <<Lit(Kw_pub), WsPlus, Lit(Kw_fn), WsPlus, Lit(name)>>,
           KwName(Kw_private, name), KwName(Kw_public, name) >>
    ELSE IF kind = Kind_variable THEN
        << KwName(Kw_let, name), KwName(Kw_const, name), KwName(Kw_var, name) >>
    ELSE IF kind = Kind_module THEN
        << KwName(Kw_mod, name), KwName(Kw_module, name), KwName(Kw_namespace, name) >>
    ELSE <<>>

(***************************************************************************)
(* Verifier                                                                *)
(***************************************************************************)
\* a file of the project: missing, or present with its content
MissingFile == [exists |-> FALSE, content |-> <<>>]

FileWith(content) == [exists |-> TRUE, content |-> content]

\* read_file_content: the content, "" when the file cannot be read
read_file_content(file) == IF file.exists THEN file.content ELSE <<>>

R_Unreadable == "File not readable"

R_Range == "Invalid line range"

R_NotFound == "Symbol name not found in specified range"

R_Pattern == "Found definition pattern"

R_Fallback == "Symbol name found in range (pattern match inconclusive)"

Outcome(verified, reason) == [verified |-> verified, reason |-> reason]

\* '\n'.join(lines[start_line-1:end_line])
SymbolContent(lines, start_line, end_line) ==
    JoinLines(PySlice(lines, start_line - 1, end_line))

PatternFound_KindAsGiven(symbol_type, symbol_name, symbol_content) ==
    LET pats == Patterns(symbol_type, symbol_name)
    IN /\ symbol_type \in PatternKinds
       /\ \E k \in 1..Len(pats) : ReSearch(pats[k], symbol_content)

\* some pattern of the lower-cased kind is found in the slice
PatternFound(symbol_type, symbol_name, symbol_content) ==
    LET symbol_type_lower == LowerStr(symbol_type)
        pats == Patterns(symbol_type_lower, symbol_name)
    IN /\ symbol_type_lower \in PatternKinds
       /\ \E k \in 1..Len(pats) : ReSearch(pats[k], symbol_content)

verify_NoStartCheck(file, symbol_name, start_line, end_line, symbol_type) ==
    LET content == read_file_content(file)
        lines == SplitLines(content)
        symbol_content == SymbolContent(lines, start_line, end_line)
    IN IF content = <<>> THEN Outcome(FALSE, R_Unreadable)
       ELSE IF end_line > Len(lines) THEN Outcome(FALSE, R_Range)
       ELSE IF ~Contains(symbol_name, symbol_content) THEN Outcome(FALSE, R_NotFound)
       ELSE IF PatternFound(symbol_type, symbol_name, symbol_content)
            THEN Outcome(TRUE, R_Pattern)
       ELSE Outcome(TRUE, R_Fallback)

verify_NoNameCheck(file, symbol_name, start_line, end_line, symbol_type) ==
    LET content == read_file_content(file)
        lines == SplitLines(content)
        symbol_content == SymbolContent(lines, start_line, end_line)
    IN IF content = <<>> THEN Outcome(FALSE, R_Unreadable)
       ELSE IF start_line < 1 \/ end_line > Len(lines) THEN Outcome(FALSE, R_Range)
       ELSE IF PatternFound(symbol_type, symbol_name, symbol_content)
            THEN Outcome(TRUE, R_Pattern)
       ELSE Outcome(TRUE, R_Fallback)

verify_StrictPattern(file, symbol_name, start_line, end_line, symbol_type) ==
    LET content == read_file_content(file)
        lines == SplitLines(content)
        symbol_content == SymbolContent(lines, start_line, end_line)
    IN IF content = <<>> THEN Outcome(FALSE, R_Unreadable)
       ELSE IF start_line < 1 \/ end_line > Len(lines) THEN Outcome(FALSE, R_Range)
       ELSE IF ~Contains(symbol_name, symbol_content) THEN Outcome(FALSE, R_NotFound)
       ELSE IF PatternFound(symbol_type, symbol_name, symbol_content)
            THEN Outcome(TRUE, R_Pattern)
       ELSE Outcome(FALSE, R_Fallback)

verify_UnknownKindRejected(file, symbol_name, start_line, end_line, symbol_type) ==
    LET content == read_file_content(file)
        lines == SplitLines(content)
        symbol_content == SymbolContent(lines, start_line, end_line)
    IN IF content = <<>> THEN Outcome(FALSE, R_Unreadable)
       ELSE IF start_line < 1 \/ end_line > Len(lines) THEN Outcome(FALSE, R_Range)
       ELSE IF ~Contains(symbol_name, symbol_content) THEN Outcome(FALSE, R_NotFound)
       ELSE IF PatternFound(symbol_type, symbol_name, symbol_content)
            THEN Outcome(TRUE, R_Pattern)
       ELSE IF LowerStr(symbol_type) \in PatternKinds THEN Outcome(TRUE, R_Fallback)
       ELSE Outcome(FALSE, R_Fallback)

verify_symbol_definition_precise(file, symbol_name, start_line, end_line, symbol_type) ==
    LET content == read_file_content(file)
        lines == SplitLines(content)
        symbol_content == SymbolContent(lines, start_line, end_line)
    IN IF content = <<>> THEN Outcome(FALSE, R_Unreadable)
       ELSE IF start_line < 1 \/ end_line > Len(lines) THEN Outcome(FALSE, R_Range)
       ELSE IF ~Contains(symbol_name, symbol_content) THEN Outcome(FALSE, R_NotFound)
       ELSE IF PatternFound(symbol_type, symbol_name, symbol_content)
            THEN Outcome(TRUE, R_Pattern)
       ELSE Outcome(TRUE, R_Fallback)

(***************************************************************************)
(* Inputs of the verifier                                                  *)
(***************************************************************************)
\* most lines of a file
MaxLines == 2

Name_Ab == <<"A", "b">>

Name_ab == <<"a", "b">>

VerifyNames == {Name_Ab, Name_ab}

VerifyLines ==
    { <<"c", "l", "a", "s", "s", " ", "A", "b">>,
      <<"I", "n", "t", "e", "r", "f", "a", "c", "e", "\t", "a", "b">>,
      <<"t", "y", "p", "e", " ", " ", "A", "b">>,
      <<"s", "t", "r", "u", "c", "t", " ", "A", "b">>,
      <<"c", "l", "a", "s", "s">>,
      <<"A", "b">>,
      <<"d", "e", "f", " ", "A", "b", "(">>,
      <<>> }

VerifyKinds ==
    { Kind_class, <<"C", "l", "a", "s", "s">>, Kind_function, Kind_method, Kind_variable,
      <<"e", "n", "u", "m">> }

LineSeqs == UNION {[1..n -> VerifyLines] : n \in 1..MaxLines}

VerifyFiles == {MissingFile} \cup {FileWith(JoinLines(ls)) : ls \in LineSeqs}

Claim(symbol_name, start_line, end_line, symbol_type) ==
    [name |-> symbol_name, start_line |-> start_line, end_line |-> end_line,
     kind |-> symbol_type]

VerifyClaims ==
    {Claim(n, s, e, k) : n \in VerifyNames, s \in 0..(MaxLines + 1),
                         e \in (-1)..(MaxLines + 1), k \in VerifyKinds}

NoClaim == Claim(<<>>, 0, 0, <<>>)

NoOutcome == Outcome(FALSE, "NONE")

(***************************************************************************)
(* The project on disk                                                     *)
(***************************************************************************)
P_config == "codex-rs/core/src/config.rs"

P_lib == "codex-rs/core/src/lib.rs"

P_other == "codex-rs/core/src/other.rs"

P_cs == "codex-rs/test_files/csharp_test_suite/BasicClass.cs"

P_cs2 == "codex-rs/test_files/csharp_test_suite/Models/BasicClass.cs"

P_py == "codex-rs/test_files/python_test_suite/basic_class.py"

\* absolute paths, as the backend reports them
A_config == "/project/codex-rs/core/src/config.rs"

A_other == "/project/codex-rs/core/src/other.rs"

\* os.path.relpath(path, self.project_root)
relpath(path) ==
    IF path = A_config THEN P_config
    ELSE IF path = A_other THEN P_other
    ELSE path

\* "config.rs" in path
HasConfigRs(path) == path \in {A_config, P_config}

Name_Config == <<"C", "o", "n", "f", "i", "g">>

Name_ConfigToml == <<"C", "o", "n", "f", "i", "g", "T", "o", "m", "l">>

Name_BasicClass == <<"B", "a", "s", "i", "c", "C", "l", "a", "s", "s">>

Name_load_config_as_toml == <<"l", "o", "a", "d", "_", "c", "o", "n", "f", "i", "g", "_", "a", "s", "_", "t", "o", "m", "l">>

ConfigRs ==
    FileWith(JoinLines(<< <<"u", "s", "e", " ", "t", "o", "m", "l", ";">>,
                          <<"p", "u", "b", " ", "s", "t", "r", "u", "c", "t", " ", "C", "o", "n", "f", "i", "g", " ", "{">>,
                          <<"}">>,
                          <<"f", "n", " ", "l", "o", "a", "d", "_", "c", "o", "n", "f", "i", "g", "_", "a", "s", "_", "t", "o", "m", "l", "(", ")", " ", "{", "}">> >>))

BasicClassCs ==
    FileWith(JoinLines(<< <<"n", "a", "m", "e", "s", "p", "a", "c", "e", " ", "T", " ", "{">>,
                          <<"p", "u", "b", "l", "i", "c", " ", "c", "l", "a", "s", "s", " ", "B", "a", "s", "i", "c", "C", "l", "a", "s", "s", " ", "{", "}">> >>))

BasicClassPy ==
    FileWith(JoinLines(<< <<"i", "m", "p", "o", "r", "t", " ", "o", "s">>,
                          <<"c", "l", "a", "s", "s", " ", "B", "a", "s", "i", "c", "C", "l", "a", "s", "s", ":">> >>))

LibRs == FileWith(JoinLines(<< <<"p", "u", "b", " ", "m", "o", "d", " ", "c", "o", "n", "f", "i", "g", ";">> >>))

\* a checkout with the fixture files
FullProject ==
    [files |-> [f \in {P_config, P_lib, P_cs, P_cs2, P_py} |->
                  IF f = P_config THEN ConfigRs
                  ELSE IF f = P_lib THEN LibRs
                  ELSE IF f = P_cs THEN BasicClassCs
                  ELSE IF f = P_cs2 THEN BasicClassCs
                  ELSE BasicClassPy],
     csharp_dir |-> TRUE,
     csharp_files |-> <<P_cs, P_cs2>>]

\* a project root without the fixture files
BareProject ==
    [files |-> [f \in {} |-> MissingFile], csharp_dir |-> FALSE, csharp_files |-> <<>>]

NoProject == BareProject

Projects == {FullProject, BareProject}

\* the file at a path of the project
FileAt(proj, path) ==
    IF path \in DOMAIN proj.files THEN proj.files[path] ELSE MissingFile

(***************************************************************************)
(* The backend adapter                                                     *)
(***************************************************************************)
\* a JSON payload that is not an object
JsonList == [json_list |-> TRUE]

IsMapping(result) == "json_list" \notin DOMAIN result

\* key in result
HasKey(result, key) == IsMapping(result) /\ key \in DOMAIN result

\* the text of an error; only its presence is modelled
ErrorText == "error text"

ErrorResult == [error |-> ErrorText]

\* what the HTTP exchange of one tool call produced
Response(transport, has_content, marker, valid_json, value) ==
    [transport |-> transport, has_content |-> has_content, marker |-> marker,
     valid_json |-> valid_json, value |-> value]

OkResponse(value) == Response("ok", TRUE, FALSE, TRUE, value)

FailureResponses ==
    {Response(t, FALSE, FALSE, FALSE, ErrorResult) :
        t \in {"timeout", "connection_error", "http_error", "body_not_json"}}
    \cup {Response("ok", FALSE, FALSE, FALSE, ErrorResult),
          Response("ok", TRUE, TRUE, TRUE, ErrorResult),
          Response("ok", TRUE, FALSE, FALSE, ErrorResult)}

call_mcp_tool_ParseFirst(resp) ==
    IF resp.transport # "ok" THEN ErrorResult
    ELSE IF ~resp.has_content THEN ErrorResult
    ELSE IF resp.valid_json THEN resp.value
    ELSE ErrorResult

call_mcp_tool(resp) ==
    IF resp.transport # "ok" THEN ErrorResult
    ELSE IF ~resp.has_content THEN ErrorResult
    ELSE IF resp.marker THEN ErrorResult
    ELSE IF ~resp.valid_json THEN ErrorResult
    ELSE resp.value

(***************************************************************************)
(* Cases of the suite: what a case logs, or that it raises                 *)
(***************************************************************************)
\* the counters of the C# corpus case
Corpus(i, successful_files, total_symbols, verified_symbols) ==
    [i |-> i, successful_files |-> successful_files, total_symbols |-> total_symbols,
     verified_symbols |-> verified_symbols]

NoCorpus == Corpus(0, 0, 0, 0)

CaseOutcome(success, details, severity) ==
    [crash |-> FALSE, success |-> success, details |-> details, severity |-> severity]

\* an exception leaves the case
Raises == [crash |-> TRUE, success |-> FALSE, details |-> Details("", <<>>),
           severity |-> "INFO"]

\* the details string made of a verifier reason
ReasonDetails(outcome) == Details(outcome.reason, <<>>)

\* index of the first definition whose file names config.rs, 0 if none
FirstConfigDef(definitions) ==
    LET InConfigRs(d) == "file" \in DOMAIN d /\ HasConfigRs(d.file)
    IN IF \E i \in 1..Len(definitions) : InConfigRs(definitions[i])
       THEN CHOOSE i \in 1..Len(definitions) :
                /\ InConfigRs(definitions[i])
                /\ \A j \in 1..(i - 1) : ~InConfigRs(definitions[j])
       ELSE 0

\* Test 1 of test_core_functionality
CoreDefinitionCase(proj, result) ==
    IF ~IsMapping(result) THEN Raises
    ELSE IF ~HasKey(result, "error") /\ HasKey(result, "definitions") THEN
        LET definitions == result.definitions
            k == FirstConfigDef(definitions)
        IN IF k = 0
           THEN CaseOutcome(FALSE, Details("Config definition not found in config.rs", <<>>),
                            "INFO")
           ELSE IF {"start_line", "end_line"} \subseteq DOMAIN definitions[k]
           THEN LET v == verify_symbol_definition_precise(
                             FileAt(proj, relpath(definitions[k].file)), Name_Config,
                             definitions[k].start_line, definitions[k].end_line, Kind_class)
                IN CaseOutcome(v.verified, ReasonDetails(v), "INFO")
           ELSE Raises
    ELSE CaseOutcome(FALSE,
                     Details(IF HasKey(result, "error") THEN result.error
                             ELSE "Unknown error", <<>>),
                     "INFO")

\* payloads the backend may answer find_symbol_definitions with
DefinitionValues ==
    { JsonList,
      [definitions |-> <<>>],
      [definitions |-> <<[file |-> A_other, start_line |-> 1, end_line |-> 1]>>],
      [definitions |-> <<[file |-> A_other, start_line |-> 1, end_line |-> 1],
                         [file |-> A_config, start_line |-> 2, end_line |-> 3]>>],
      [definitions |-> <<[file |-> A_config]>>] }

\* lines[index]: whether the index is in range, and the element
PyIndexOk(ls, index) == -Len(ls) <= index /\ index < Len(ls)

PyIndex(ls, index) == IF index >= 0 THEN ls[index + 1] ELSE ls[Len(ls) + index + 1]

\* whether checking one reference raises, and whether it is verified
RefRaises(proj, ref) ==
    \/ "file" \notin DOMAIN ref
    \/ /\ read_file_content(FileAt(proj, relpath(ref.file))) # <<>>
       /\ \/ "line" \notin DOMAIN ref
          \/ LET lines == SplitLines(read_file_content(FileAt(proj, relpath(ref.file))))
             IN ref.line <= Len(lines) /\ ~PyIndexOk(lines, ref.line - 1)

RefVerified(proj, ref) ==
    LET content == read_file_content(FileAt(proj, relpath(ref.file)))
        lines == SplitLines(content)
    IN /\ content # <<>>
       /\ ref.line <= Len(lines)
       /\ Contains(Name_load_config_as_toml, PyIndex(lines, ref.line - 1))

\* Test 2 of test_core_functionality
CoreReferenceCase(proj, result) ==
    IF ~HasKey(result, "error") /\ HasKey(result, "references") THEN
        LET references == result.references
        IN IF \E i \in 1..Len(references) : RefRaises(proj, references[i]) THEN Raises
           ELSE LET verified_refs ==
                        Cardinality({i \in 1..Len(references) :
                                        RefVerified(proj, references[i])})
                IN CaseOutcome(verified_refs = Len(references) /\ verified_refs > 0,
                               Details("references verified",
                                       <<verified_refs, Len(references)>>),
                               "INFO")
    ELSE CaseOutcome(FALSE, Details("Failed to get references", <<>>), "INFO")

\* payloads the backend may answer find_symbol_references with
ReferenceValues ==
    { JsonList,
      [references |-> <<>>],
      [references |-> <<[file |-> A_config, line |-> 4]>>],
      [references |-> <<[file |-> A_config, line |-> 4], [file |-> A_config, line |-> 1]>>],
      [references |-> <<[file |-> A_config, line |-> 0]>>],
      [references |-> <<[file |-> A_config, line |-> -9]>>],
      [references |-> <<[file |-> A_config]>>] }

\* the value of a mapping's key, the default when the key is missing
GetOr(d, key, default) == IF key \in DOMAIN d THEN d[key] ELSE default

CoreSubgraphCase_SourceOnly(result) ==
    IF ~HasKey(result, "error") THEN
        IF ~IsMapping(result) THEN Raises
        ELSE LET nodes == GetOr(result, "nodes", <<>>)
                 edges == GetOr(result, "edges", <<>>)
             IN IF \E i \in 1..Len(nodes) : "id" \notin DOMAIN nodes[i] THEN Raises
                ELSE LET node_ids == {nodes[i].id : i \in 1..Len(nodes)}
                         valid_edges ==
                             Cardinality({i \in 1..Len(edges) :
                                 /\ "source" \in DOMAIN edges[i]
                                 /\ edges[i].source \in node_ids
                                 /\ "target" \in DOMAIN edges[i]})
                         has_config ==
                             \E i \in 1..Len(nodes) :
                                 Contains(Name_Config, GetOr(nodes[i], "name", <<>>))
                     IN CaseOutcome(has_config /\ valid_edges > 0 /\ Len(nodes) > 1,
                                    Details("Nodes, Valid edges, Has Config",
                                            <<Len(nodes), valid_edges, Len(edges),
                                              IF has_config THEN 1 ELSE 0>>),
                                    "INFO")
    ELSE CaseOutcome(FALSE, Details(result.error, <<>>), "INFO")

\* Test 3 of test_core_functionality
CoreSubgraphCase(result) ==
    IF ~HasKey(result, "error") THEN
        IF ~IsMapping(result) THEN Raises
        ELSE LET nodes == GetOr(result, "nodes", <<>>)
                 edges == GetOr(result, "edges", <<>>)
             IN IF \E i \in 1..Len(nodes) : "id" \notin DOMAIN nodes[i] THEN Raises
                ELSE LET node_ids == {nodes[i].id : i \in 1..Len(nodes)}
                         valid_edges ==
                             Cardinality({i \in 1..Len(edges) :
                                 /\ "source" \in DOMAIN edges[i]
                                 /\ edges[i].source \in node_ids
                                 /\ "target" \in DOMAIN edges[i]
                                 /\ edges[i].target \in node_ids})
                         has_config ==
                             \E i \in 1..Len(nodes) :
                                 Contains(Name_Config, GetOr(nodes[i], "name", <<>>))
                     IN CaseOutcome(has_config /\ valid_edges > 0 /\ Len(nodes) > 1,
                                    Details("Nodes, Valid edges, Has Config",
                                            <<Len(nodes), valid_edges, Len(edges),
                                              IF has_config THEN 1 ELSE 0>>),
                                    "INFO")
    ELSE CaseOutcome(FALSE, Details(result.error, <<>>), "INFO")

Node(id, name) == [id |-> id, name |-> name]

Edge(source, target) == [source |-> source, target |-> target]

\* payloads the backend may answer get_symbol_subgraph with
SubgraphValues ==
    { JsonList,
      [nodes |-> <<Node(1, Name_Config), Node(2, Name_ConfigToml)>>,
       edges |-> <<Edge(1, 2), Edge(1, 7)>>],
      [nodes |-> <<Node(1, Name_Config), Node(2, Name_ConfigToml)>>,
       edges |-> <<Edge(1, 7)>>],
      [nodes |-> <<[name |-> Name_Config]>>, edges |-> <<>>] }

\* the language_tests table
language_tests ==
    << [file |-> P_config, language |-> "Rust",
        expected_symbols |-> <<Name_Config, Name_ConfigToml>>],
       [file |-> P_cs, language |-> "C#", expected_symbols |-> <<Name_BasicClass>>],
       [file |-> P_py, language |-> "Python", expected_symbols |-> <<Name_BasicClass>>] >>

\* x in list
InList(x, list) == \E i \in 1..Len(list) : list[i] = x

\* the keys verify_symbol_definition_precise is called with
SymbolKeys == {"name", "start_line", "end_line", "symbol_type"}

\* the verifier on a reported symbol of a file
VerifySymbol(proj, path, symbol) ==
    verify_symbol_definition_precise(FileAt(proj, path), symbol.name, symbol.start_line,
                                     symbol.end_line, symbol.symbol_type)

\* one iteration of the loop of test_multi_language_support
LanguageCase(proj, test, result) ==
    IF HasKey(result, "error") THEN CaseOutcome(FALSE, Details(result.error, <<>>), "INFO")
    ELSE IF ~IsMapping(result) THEN Raises
    ELSE LET symbols == GetOr(result, "symbols", <<>>)
         IN IF \E i \in 1..Len(symbols) : "name" \notin DOMAIN symbols[i] THEN Raises
            ELSE IF \E i \in 1..Len(symbols) :
                       /\ InList(symbols[i].name, test.expected_symbols)
                       /\ ~(SymbolKeys \subseteq DOMAIN symbols[i])
            THEN Raises
            ELSE LET found_expected ==
                         Cardinality({k \in 1..Len(test.expected_symbols) :
                             \E i \in 1..Len(symbols) :
                                 symbols[i].name = test.expected_symbols[k]})
                     verified_count ==
                         Cardinality({i \in 1..Len(symbols) :
                             /\ InList(symbols[i].name, test.expected_symbols)
                             /\ VerifySymbol(proj, test.file, symbols[i]).verified})
                 IN CaseOutcome(found_expected > 0 /\ verified_count > 0,
                                Details("symbols, verified, expected",
                                        <<Len(symbols), verified_count, found_expected,
                                          Len(test.expected_symbols)>>),
                                "INFO")

Sym(name, start_line, end_line, symbol_type) ==
    [name |-> name, start_line |-> start_line, end_line |-> end_line,
     symbol_type |-> symbol_type]

\* payloads the backend may answer analyze_code with
AnalyzeValues ==
    { JsonList,
      [symbols |-> <<Sym(Name_BasicClass, 2, 2, Kind_class)>>],
      [symbols |-> <<Sym(Name_Config, 2, 3, Kind_class), Sym(Name_ConfigToml, 9, 9, Kind_class)>>],
      [symbols |-> <<[name |-> Name_BasicClass]>>] }

\* one iteration of the file loop of test_csharp_comprehensive_accuracy:
\* whether it raises, and the counters after it
CSharpFileRaises(result) ==
    /\ ~HasKey(result, "error")
    /\ HasKey(result, "symbols")
    /\ \E i \in 1..Len(result.symbols) : ~(SymbolKeys \subseteq DOMAIN result.symbols[i])

CSharpFileStep_Swapped(proj, c, path, result) ==
    IF ~HasKey(result, "error") /\ HasKey(result, "symbols") THEN
        LET symbols == result.symbols
            file_verified ==
                Cardinality({i \in 1..Len(symbols) :
                                VerifySymbol(proj, path, symbols[i]).verified})
        IN Corpus(c.i + 1,
                  IF file_verified > 0 THEN c.successful_files + 1 ELSE c.successful_files,
                  c.total_symbols + file_verified,
                  c.verified_symbols + Len(symbols))
    ELSE Corpus(c.i + 1, c.successful_files, c.total_symbols, c.verified_symbols)

CSharpFileStep(proj, c, path, result) ==
    IF ~HasKey(result, "error") /\ HasKey(result, "symbols") THEN
        LET symbols == result.symbols
            file_verified ==
                Cardinality({i \in 1..Len(symbols) :
                                VerifySymbol(proj, path, symbols[i]).verified})
        IN Corpus(c.i + 1,
                  IF file_verified > 0 THEN c.successful_files + 1 ELSE c.successful_files,
                  c.total_symbols + Len(symbols),
                  c.verified_symbols + file_verified)
    ELSE Corpus(c.i + 1, c.successful_files, c.total_symbols, c.verified_symbols)

\* the outcome logged after the file loop
CSharpCase(total_files, c) ==
    LET success ==
            /\ total_files > 0
            /\ c.successful_files * 100 >= 70 * total_files
            /\ c.total_symbols > 0
            /\ c.verified_symbols * 100 >= 10 * c.total_symbols
    IN CaseOutcome(success,
                   Details("Files, Symbols",
                           <<c.successful_files, total_files, c.verified_symbols,
                             c.total_symbols>>),
                   IF success THEN "INFO" ELSE "WARNING")

\* seconds measured around the first call of test_performance_and_reliability
ResponseTimes == {1, 3, 31}

\* the response time test
PerfTimeCase(response_time, result) ==
    CaseOutcome(response_time < 5 /\ ~HasKey(result, "error"),
                Details("Response time", <<response_time>>),
                IF response_time > 2 THEN "WARNING" ELSE "INFO")

\* the error handling test
PerfErrorCase(result) ==
    CaseOutcome(HasKey(result, "error"),
                Details("Proper error handling for invalid files", <<>>), "INFO")

\* the large file test
PerfLargeCase(result) ==
    LET success == ~HasKey(result, "error") /\ HasKey(result, "symbols")
    IN CaseOutcome(success,
                   Details(IF success THEN "Large file analysis: success"
                           ELSE "Large file analysis: failed", <<>>),
                   "INFO")

(***************************************************************************)
(* The text of a payload and the HTTP exchange of one tool call            *)
(***************************************************************************)
Digits == <<"0", "1", "2", "3", "4", "5", "6", "7", "8", "9">>

\* the decimal text of a natural number
RECURSIVE NumText(_)
NumText(n) ==
    IF n < 10 THEN <<Digits[n + 1]>>
    ELSE NumText(n \div 10) \o <<Digits[(n % 10) + 1]>>

Quote(chars) == <<"\"">> \o chars \o <<"\"">>

Member(key, value_text) == Quote(key) \o <<":">> \o value_text

RECURSIVE JoinComma(_)
JoinComma(texts) ==
    IF texts = <<>> THEN <<>>
    ELSE IF Len(texts) = 1 THEN texts[1]
    ELSE texts[1] \o <<",">> \o JoinComma(Tail(texts))

Object(members) == <<"{">> \o JoinComma(members) \o <<"}">>

Array(items) == <<"[">> \o JoinComma(items) \o <<"]">>

\* a member of an object when the mapping has the key
TextMember(d, key, key_text) ==
    IF key \in DOMAIN d THEN <<Member(key_text, Quote(d[key]))>> ELSE <<>>

NumMember(d, key, key_text) ==
    IF key \in DOMAIN d THEN <<Member(key_text, NumText(d[key]))>> ELSE <<>>

SymText(s) ==
    Object(TextMember(s, "name", <<"n", "a", "m", "e">>)
           \o NumMember(s, "start_line", <<"s", "t", "a", "r", "t", "_", "l", "i", "n", "e">>)
           \o NumMember(s, "end_line", <<"e", "n", "d", "_", "l", "i", "n", "e">>)
           \o TextMember(s, "symbol_type", <<"s", "y", "m", "b", "o", "l", "_", "t", "y", "p", "e">>))

NodeText(n) == Object(NumMember(n, "id", <<"i", "d">>) \o TextMember(n, "name", <<"n", "a", "m", "e">>))

EdgeText(e) ==
    Object(NumMember(e, "source", <<"s", "o", "u", "r", "c", "e">>) \o NumMember(e, "target", <<"t", "a", "r", "g", "e", "t">>))

\* the decimal text of an integer
IntText(n) == IF n < 0 THEN <<"-">> \o NumText(-n) ELSE NumText(n)

\* the characters of an absolute path
PathText(path) ==
    IF path = A_config
    THEN <<"/", "p", "r", "o", "j", "e", "c", "t", "/", "c", "o", "d", "e", "x", "-", "r", "s", "/", "c", "o", "r", "e", "/", "s", "r", "c", "/", "c", "o", "n", "f", "i", "g", ".", "r", "s">>
    ELSE <<"/", "p", "r", "o", "j", "e", "c", "t", "/", "c", "o", "d", "e", "x", "-", "r", "s", "/", "c", "o", "r", "e", "/", "s", "r", "c", "/", "o", "t", "h", "e", "r", ".", "r", "s">>

RefText(r) ==
    Object((IF "file" \in DOMAIN r
            THEN <<Member(<<"f", "i", "l", "e">>, Quote(PathText(r.file)))>> ELSE <<>>)
           \o (IF "line" \in DOMAIN r
               THEN <<Member(<<"l", "i", "n", "e">>, IntText(r.line))>> ELSE <<>>))

\* the JSON text the backend sends for a payload
JsonText(v) ==
    IF ~IsMapping(v) THEN Array(<<>>)
    ELSE Object(
           (IF "symbols" \in DOMAIN v
            THEN <<Member(<<"s", "y", "m", "b", "o", "l", "s">>,
                          Array([i \in 1..Len(v.symbols) |-> SymText(v.symbols[i])]))>>
            ELSE <<>>)
           \o (IF "nodes" \in DOMAIN v
               THEN <<Member(<<"n", "o", "d", "e", "s">>,
                             Array([i \in 1..Len(v.nodes) |-> NodeText(v.nodes[i])]))>>
               ELSE <<>>)
           \o (IF "edges" \in DOMAIN v
               THEN <<Member(<<"e", "d", "g", "e", "s">>,
                             Array([i \in 1..Len(v.edges) |-> EdgeText(v.edges[i])]))>>
               ELSE <<>>)
           \o (IF "references" \in DOMAIN v
               THEN <<Member(<<"r", "e", "f", "e", "r", "e", "n", "c", "e", "s">>,
                             Array([i \in 1..Len(v.references) |-> RefText(v.references[i])]))>>
               ELSE <<>>))

Name_ParseError == <<"P", "a", "r", "s", "e", "E", "r", "r", "o", "r">>

Name_parse_error == <<"p", "a", "r", "s", "e", "_", "e", "r", "r", "o", "r">>

\* payloads listing a symbol whose name holds "Error", or "error"
MarkerValues ==
    { [symbols |-> <<Sym(Name_ParseError, 1, 1, Kind_class)>>],
      [symbols |-> <<Sym(Name_parse_error, 1, 1, Kind_function)>>] }

\* the payloads a tool call may carry
PayloadValues == AnalyzeValues \cup SubgraphValues \cup MarkerValues \cup ReferenceValues

\* texts that are not JSON: an error message of the backend, and noise
Text_ErrorMessage == <<"E", "r", "r", "o", "r", ":", " ", "f", "i", "l", "e", " ", "n", "o", "t", " ", "f", "o", "u", "n", "d">>

Text_Noise == <<"o", "o", "p", "s">>

PayloadTexts == {JsonText(v) : v \in PayloadValues} \cup {Text_ErrorMessage, Text_Noise}

\* "Error" in content
ErrorMarker == <<"E", "r", "r", "o", "r">>

\* json.loads(content): whether it succeeds, and the value
IsJson(text) == \E v \in PayloadValues : JsonText(v) = text

JsonLoads(text) == CHOOSE v \in PayloadValues : JsonText(v) = text

\* the body of an HTTP response: not JSON, or the JSON-RPC object
NotJsonBody == [not_json |-> TRUE]

\* a JSON-RPC error object: no "result"
RpcErrorBody == [error |-> [code |-> 1]]

\* a result without "content"
NoContentBody == [result |-> [is_error |-> FALSE]]

ContentBody(content) == [result |-> [content |-> content]]

TextItem(text) == [type |-> "text", text |-> text]

ImageItem == [type |-> "image"]

\* requests.post: the call times out or cannot connect, or a response with a
\* status and a body arrives
Exchange(transport, status, body) ==
    [transport |-> transport, status |-> status, body |-> body]

NoExchange == Exchange("none", 0, NotJsonBody)

Exchanges ==
    { Exchange("timeout", 0, NotJsonBody), Exchange("connection_error", 0, NotJsonBody),
      Exchange("ok", 500, NotJsonBody), Exchange("ok", 500, RpcErrorBody),
      Exchange("ok", 200, NotJsonBody), Exchange("ok", 200, RpcErrorBody),
      Exchange("ok", 200, NoContentBody), Exchange("ok", 200, ContentBody(<<>>)),
      Exchange("ok", 200, ContentBody(<<ImageItem>>)) }
    \cup {Exchange("ok", 200, ContentBody(<<TextItem(t)>>)) : t \in PayloadTexts}

\* the exchange up to the text of the first content item: what call_mcp_tool
\* branches on
ResponseOf(x) ==
    IF x.transport # "ok" THEN Response(x.transport, FALSE, FALSE, FALSE, ErrorResult)
    ELSE IF x.status # 200 THEN Response("http_error", FALSE, FALSE, FALSE, ErrorResult)
    ELSE IF "not_json" \in DOMAIN x.body
    THEN Response("body_not_json", FALSE, FALSE, FALSE, ErrorResult)
    ELSE IF ~("result" \in DOMAIN x.body /\ "content" \in DOMAIN x.body.result)
    THEN Response("ok", FALSE, FALSE, FALSE, ErrorResult)
    ELSE IF x.body.result.content = <<>> \/ "text" \notin DOMAIN x.body.result.content[1]
    THEN Response("content_error", FALSE, FALSE, FALSE, ErrorResult)
    ELSE LET content == x.body.result.content[1].text
         IN Response("ok", TRUE, Contains(ErrorMarker, content), IsJson(content),
                     IF IsJson(content) THEN JsonLoads(content) ELSE ErrorResult)

NoResult == [none |-> TRUE]

(***************************************************************************)
(* comprehensive_skeleton_test.py: the quality of a skeleton against its   *)
(* original file, and the summary of one language                          *)
(***************************************************************************)
\* most files tested for one language
MaxFiles == 2

\* text.count(sub): the occurrences of sub, not overlapping, from the left
RECURSIVE CountFrom(_, _, _)
CountFrom(sub, text, i) ==
    IF i + Len(sub) - 1 > Len(text) THEN 0
    ELSE IF SubSeq(text, i, i + Len(sub) - 1) = sub
    THEN 1 + CountFrom(sub, text, i + Len(sub))
    ELSE CountFrom(sub, text, i + 1)

StrCount(sub, text) == CountFrom(sub, text, 1)

\* text.splitlines(), the line boundary being "\n"
Splitlines(text) ==
    IF text = <<>> THEN <<>>
    ELSE LET parts == SplitLines(text)
         IN IF parts[Len(parts)] = <<>> THEN SubSeq(parts, 1, Len(parts) - 1) ELSE parts

\* line.strip().startswith('//')
RECURSIVE LStrip(_)
LStrip(line) ==
    IF line # <<>> /\ IsSpace(line[1]) THEN LStrip(Tail(line)) ELSE line

IsLineComment(line) ==
    Len(LStrip(line)) >= 2 /\ SubSeq(LStrip(line), 1, 2) = <<"/", "/">>

Max(a, b) == IF a >= b THEN a ELSE b

\* the float num / den
Ratio(num, den) == [num |-> num, den |-> den]

Languages == {"Python", "C#", "C++"}

\* the counts of analyze_original_file that analyze_skeleton_quality reads
analyze_original_file(file, language) ==
    IF ~file.exists THEN [error |-> ErrorText]
    ELSE LET content == file.content
             lines == Splitlines(content)
         IN IF language = "Python"
            THEN [total_lines |-> Len(lines),
                  classes |-> StrCount(<<"c", "l", "a", "s", "s", " ">>, content),
                  functions |-> StrCount(<<"d", "e", "f", " ">>, content),
                  imports |-> StrCount(<<"i", "m", "p", "o", "r", "t", " ">>, content) + StrCount(<<"f", "r", "o", "m", " ">>, content)]
            ELSE IF language = "C#"
            THEN [total_lines |-> Len(lines),
                  namespaces |-> StrCount(<<"n", "a", "m", "e", "s", "p", "a", "c", "e", " ">>, content),
                  classes |-> StrCount(<<"c", "l", "a", "s", "s", " ">>, content)
                                + StrCount(<<"i", "n", "t", "e", "r", "f", "a", "c", "e", " ">>, content),
                  methods |-> StrCount(<<"p", "u", "b", "l", "i", "c", " ">>, content)
                                + StrCount(<<"p", "r", "i", "v", "a", "t", "e", " ">>, content)
                                + StrCount(<<"p", "r", "o", "t", "e", "c", "t", "e", "d", " ">>, content)]
            ELSE [total_lines |-> Len(lines),
                  includes |-> StrCount(<<"#", "i", "n", "c", "l", "u", "d", "e">>, content),
                  classes |-> StrCount(<<"c", "l", "a", "s", "s", " ">>, content),
                  functions |-> StrCount(<<":", ":">>, content)
                                  + Cardinality({i \in 1..Len(lines) :
                                        /\ Contains(<<"(">>, lines[i])
                                        /\ ~IsLineComment(lines[i])})]

preservation_NoFloor(found_count, expected_count) ==
    Ratio(found_count * 100, expected_count)

\* (found / max(expected, 1)) * 100
preservation(found_count, expected_count) ==
    Ratio(found_count * 100, Max(expected_count, 1))

\* quality["elements"] of a skeleton
SkeletonElements(skeleton, language) ==
    IF language = "Python"
    THEN [classes |-> StrCount(<<"c", "l", "a", "s", "s", " ">>, skeleton),
          functions |-> StrCount(<<"d", "e", "f", " ">>, skeleton),
          imports |-> StrCount(<<"i", "m", "p", "o", "r", "t", " ">>, skeleton) + StrCount(<<"f", "r", "o", "m", " ">>, skeleton),
          line_refs |-> StrCount(<<"#", " ", "L", "i", "n", "e", " ">>, skeleton) + StrCount(<<"/", "/", " ", "L", "i", "n", "e">>, skeleton)]
    ELSE IF language = "C#"
    THEN [namespaces |-> StrCount(<<"n", "a", "m", "e", "s", "p", "a", "c", "e", " ">>, skeleton),
          classes |-> StrCount(<<"c", "l", "a", "s", "s", " ">>, skeleton) + StrCount(<<"i", "n", "t", "e", "r", "f", "a", "c", "e", " ">>, skeleton),
          methods |-> StrCount(<<"p", "u", "b", "l", "i", "c", " ">>, skeleton) + StrCount(<<"p", "r", "i", "v", "a", "t", "e", " ">>, skeleton),
          using_statements |-> StrCount(<<"u", "s", "i", "n", "g", " ">>, skeleton),
          line_refs |-> StrCount(<<"/", "/", " ", "L", "i", "n", "e">>, skeleton)]
    ELSE [includes |-> StrCount(<<"#", "i", "n", "c", "l", "u", "d", "e">>, skeleton),
          classes |-> StrCount(<<"c", "l", "a", "s", "s", " ">>, skeleton),
          functions |-> StrCount(<<":", ":">>, skeleton) + StrCount(<<"(">>, skeleton),
          line_refs |-> StrCount(<<"/", "/", " ", "L", "i", "n", "e">>, skeleton)]

\* the element kinds whose preservation is computed
TrackedElements(language) ==
    IF language = "Python" THEN {"classes", "functions", "imports"}
    ELSE IF language = "C#" THEN {"namespaces", "classes", "methods"}
    ELSE {"includes", "classes", "functions"}

analyze_skeleton_quality(skeleton, original_analysis, language) ==
    IF skeleton = <<>> THEN [error |-> "No skeleton generated"]
    ELSE LET skeleton_lines == Len(Splitlines(skeleton))
             original_lines == GetOr(original_analysis, "total_lines", 0)
             elements == SkeletonElements(skeleton, language)
         IN [skeleton_lines |-> skeleton_lines,
             original_lines |-> original_lines,
             compression_ratio |-> IF original_lines > 0
                                   THEN Ratio(skeleton_lines * 100, original_lines)
                                   ELSE Ratio(0, 1),
             tree_sitter_used |->
                 Contains(<<"G", "e", "n", "e", "r", "a", "t", "e", "d", " ", "f", "r", "o", "m", " ", "T", "r", "e", "e", "-", "s", "i", "t", "t", "e", "r", " ", "p", "a", "r", "s", "e", "d", " ", "s", "y", "m", "b", "o", "l", "s">>, skeleton),
             fallback_used |-> Contains(<<"f", "a", "l", "l", "b", "a", "c", "k", " ", "s", "k", "e", "l", "e", "t", "o", "n">>, LowerStr(skeleton)),
             elements |-> elements,
             preservation |->
                 [key \in TrackedElements(language) |->
                     preservation(elements[key], GetOr(original_analysis, key, 1))]]

\* what get_skeleton returns: None, or the skeleton text
NoSkeleton == [none |-> TRUE]

SkeletonText(text) == [text |-> text]

\* test_file_comprehensive returned None
NoFileResult == [none |-> TRUE]

test_file_comprehensive(file, language, answer) ==
    LET original_analysis == analyze_original_file(file, language)
    IN IF "error" \in DOMAIN original_analysis THEN NoFileResult
       ELSE IF "none" \in DOMAIN answer \/ answer.text = <<>>
       THEN [success |-> FALSE, original_analysis |-> original_analysis]
       ELSE [success |-> TRUE, original_analysis |-> original_analysis,
             quality |-> analyze_skeleton_quality(answer.text, original_analysis,
                                                  language)]

\* the sum of a sequence of ratios
RECURSIVE SumRatios(_)
SumRatios(rs) ==
    IF rs = <<>> THEN Ratio(0, 1)
    ELSE LET rest == SumRatios(Tail(rs))
         IN Ratio(rs[1].num * rest.den + rest.num * rs[1].den, rs[1].den * rest.den)

IsSuccessful(r) == r.success

IsTreeSitter(r) == r.success /\ r.quality.tree_sitter_used

\* print_summary raised ZeroDivisionError
SummaryRaised == [raised |-> TRUE]

NoSkeletonSummary == [none |-> TRUE]

\* the lines print_summary prints for one language
LanguageSummary(results) ==
    LET successful == SelectSeq(results, IsSuccessful)
        tree_sitter_used == SelectSeq(results, IsTreeSitter)
    IN IF Len(results) = 0 THEN SummaryRaised
       ELSE [total |-> Len(results),
             successful |-> Len(successful),
             success_pct |-> Ratio(Len(successful) * 100, Len(results)),
             tree_sitter_used |-> Len(tree_sitter_used),
             tree_sitter_pct |-> Ratio(Len(tree_sitter_used) * 100, Len(results)),
             avg_compression |->
                 IF successful # <<>>
                 THEN LET s == SumRatios([i \in 1..Len(successful) |->
                                             successful[i].quality.compression_ratio])
                      IN Ratio(s.num, s.den * Len(successful))
                 ELSE Ratio(0, 1),
             avg_preservation |->
                 IF successful # <<>>
                 THEN [key \in DOMAIN successful[1].quality.preservation |->
                          LET s == SumRatios([i \in 1..Len(successful) |->
                                      successful[i].quality.preservation[key]])
                          IN Ratio(s.num, s.den * Len(successful))]
                 ELSE << >>]

\* files of the test suites, and skeletons the backend may answer with
PythonFiles ==
    { MissingFile,
      FileWith(JoinLines(<<<<"i", "m", "p", "o", "r", "t", " ", "o", "s">>, <<"c", "l", "a", "s", "s", " ", "A", ":">>, <<" ", " ", " ", " ", "d", "e", "f", " ", "f", "(", "s", "e", "l", "f", ")", ":">>>>)),
      FileWith(<<"x", " ", "=", " ", "1">>) }

PythonSkeletons ==
    { NoSkeleton, SkeletonText(<<>>),
      SkeletonText(JoinLines(<<<<"/", "/", " ", "G", "e", "n", "e", "r", "a", "t", "e", "d", " ", "f", "r", "o", "m", " ", "T", "r", "e", "e", "-", "s", "i", "t", "t", "e", "r", " ", "p", "a", "r", "s", "e", "d", " ", "s", "y", "m", "b", "o", "l", "s">>,
                               <<"i", "m", "p", "o", "r", "t", " ", "o", "s">>, <<"c", "l", "a", "s", "s", " ", "A", ":", " ", " ", "#", " ", "L", "i", "n", "e", " ", "2">>>>)),
      SkeletonText(JoinLines(<<<<"c", "l", "a", "s", "s", " ", "A", ":">>, <<"c", "l", "a", "s", "s", " ", "B", ":">>>>)) }

CSharpFiles ==
    { MissingFile,
      FileWith(JoinLines(<<<<"n", "a", "m", "e", "s", "p", "a", "c", "e", " ", "T", " ", "{">>, <<"p", "u", "b", "l", "i", "c", " ", "c", "l", "a", "s", "s", " ", "B", " ", "{">>,
                           <<"p", "r", "o", "t", "e", "c", "t", "e", "d", " ", "i", "n", "t", " ", "X", " ", "{", " ", "g", "e", "t", ";", " ", "s", "e", "t", ";", " ", "}">>, <<"}">>, <<"}">>>>)),
      FileWith(<<"/", "/", " ", "e", "m", "p", "t", "y">>) }

CSharpSkeletons ==
    { NoSkeleton, SkeletonText(<<>>),
      SkeletonText(JoinLines(<<<<"/", "/", " ", "F", "a", "l", "l", "b", "a", "c", "k", " ", "s", "k", "e", "l", "e", "t", "o", "n">>, <<"n", "a", "m", "e", "s", "p", "a", "c", "e", " ", "T", " ", "{">>>>)),
      SkeletonText(JoinLines(<<<<"n", "a", "m", "e", "s", "p", "a", "c", "e", " ", "T", " ", "{">>, <<"p", "u", "b", "l", "i", "c", " ", "c", "l", "a", "s", "s", " ", "B", " ", "{", " ", "/", "/", " ", "L", "i", "n", "e", " ", "2">>,
                               <<"p", "u", "b", "l", "i", "c", " ", "i", "n", "t", "e", "r", "f", "a", "c", "e", " ", "I", " ", "{">>>>)) }

CppFiles ==
    { MissingFile,
      FileWith(JoinLines(<<<<"#", "i", "n", "c", "l", "u", "d", "e", " ", "<", "a", ">">>, <<"c", "l", "a", "s", "s", " ", "C", " ", "{">>, <<" ", "v", "o", "i", "d", " ", "f", "(", ")", ";">>, <<"}", ";">>,
                           <<"/", "/", " ", "g", "(", ")">>, <<"v", "o", "i", "d", " ", "C", ":", ":", "f", "(", ")", " ", "{", "}">>>>)),
      FileWith(<<"i", "n", "t", " ", "x", ";">>) }

CppSkeletons ==
    { NoSkeleton, SkeletonText(<<>>),
      SkeletonText(JoinLines(<<<<"#", "i", "n", "c", "l", "u", "d", "e", " ", "<", "a", ">">>, <<"c", "l", "a", "s", "s", " ", "C", " ", "{">>, <<" ", "v", "o", "i", "d", " ", "f", "(", ")", ";">>>>)),
      SkeletonText(<<"v", "o", "i", "d", " ", "C", ":", ":", "f", "(", ")", ";">>) }

SuiteFiles(language) ==
    IF language = "Python" THEN PythonFiles
    ELSE IF language = "C#" THEN CSharpFiles
    ELSE CppFiles

Skeletons(language) ==
    IF language = "Python" THEN PythonSkeletons
    ELSE IF language = "C#" THEN CSharpSkeletons
    ELSE CppSkeletons

(***************************************************************************)
(* test_files/python_test_suite: OrderService over its order repository    *)
(* and one stocked product                                                 *)
(***************************************************************************)
\* no OrderService has been constructed
NoOrders == [repo |-> <<>>, stock |-> 0, op |-> "none", ret |-> "none"]

\* most orders created
MaxOrders == 2

\* units of the product in stock when the service is constructed
InitialStock == 2

\* the members of OrderStatus
OrderStatuses == {"PENDING", "PROCESSING", "SHIPPED", "DELIVERED", "CANCELLED"}

\* valid_transitions.get(current_status, [])
valid_transitions(current_status) ==
    IF current_status = "PENDING" THEN {"PROCESSING", "CANCELLED"}
    ELSE IF current_status = "PROCESSING" THEN {"SHIPPED", "CANCELLED"}
    ELSE IF current_status = "SHIPPED" THEN {"DELIVERED"}
    ELSE {}

\* _validate_status_transition raises ValueError
TransitionRejected(current_status, new_status) ==
    new_status \notin valid_transitions(current_status)

\* Order.__init__: a pending order without items; quantity is the quantity
\* of the order's item for the product, 0 without item
Order == [status |-> "PENDING", quantity |-> 0]

\* the service: its order repository (the order with id i at position i),
\* the stock of the product, and the last call with what it returned
Service(repo, stock, op, ret) == [repo |-> repo, stock |-> stock, op |-> op, ret |-> ret]

\* get_order
HasOrder(s, order_id) == order_id \in 1..Len(s.repo)

\* Order.update_status on the order with the given id
update_status(repo, order_id, new_status) ==
    [repo EXCEPT ![order_id].status = new_status]

create_order(s) == Service(Append(s.repo, Order), s.stock, "create_order", "order")

\* add_product_to_order with quantity 1
add_product_to_order(s, order_id) ==
    IF ~HasOrder(s, order_id) THEN Service(s.repo, s.stock, "add_product_to_order", "False")
    ELSE IF s.repo[order_id].status # "PENDING" \/ s.stock <= 0
    THEN Service(s.repo, s.stock, "add_product_to_order", "ValueError")
    ELSE Service([s.repo EXCEPT ![order_id].quantity = @ + 1], s.stock - 1,
                 "add_product_to_order", "True")

update_order_status(s, order_id, new_status) ==
    IF ~HasOrder(s, order_id) THEN Service(s.repo, s.stock, "update_order_status", "False")
    ELSE IF TransitionRejected(s.repo[order_id].status, new_status)
    THEN Service(s.repo, s.stock, "update_order_status", "ValueError")
    ELSE Service(update_status(s.repo, order_id, new_status), s.stock,
                 "update_order_status", "True")

\* cancel_order: the stock of the order's item goes back to the product
cancel_order(s, order_id) ==
    IF ~HasOrder(s, order_id) THEN Service(s.repo, s.stock, "cancel_order", "False")
    ELSE IF s.repo[order_id].status \in {"DELIVERED", "CANCELLED"}
    THEN Service(s.repo, s.stock, "cancel_order", "ValueError")
    ELSE Service(update_status(s.repo, order_id, "CANCELLED"),
                 s.stock + s.repo[order_id].quantity, "cancel_order", "True")

(***************************************************************************)
(* interactive_skeleton_test.py: SkeletonTester and its initialization     *)
(***************************************************************************)
\* most calls of initialize_mcp and get_skeleton on one tester
MaxCalls == 3

\* the timeouts of the initialization attempts, in seconds
timeouts == <<20, 60, 120>>

\* what requests.post gives an attempt: status 200, another status, a
\* Timeout, or another exception
Replies == {"200", "500", "timeout", "error"}

\* the tester: its initialized flag, where it stands (idle, or inside the
\* attempt loop of initialize_mcp), who called, the replies and the timeouts
\* of the attempts of the call, what initialize_mcp returned, and the calls
\* so far
Tester(initialized, at, by, replies, used, ret, calls) ==
    [initialized |-> initialized, at |-> at, caller |-> by, replies |-> replies,
     used |-> used, ret |-> ret, calls |-> calls]

\* no SkeletonTester has been constructed
NoTester == Tester(FALSE, "none", "none", <<>>, <<>>, "none", 0)

\* initialize_mcp up to its loop: an initialized tester returns True at once
initialize_mcp(t, by) ==
    IF t.initialized THEN Tester(TRUE, "idle", by, <<>>, <<>>, "True", t.calls + 1)
    ELSE Tester(FALSE, "attempt", by, <<>>, <<>>, "none", t.calls + 1)

\* get_skeleton up to its request: it initializes only a tester that is not
\* initialized
get_skeleton(t) ==
    IF ~t.initialized THEN initialize_mcp(t, "get_skeleton")
    ELSE Tester(TRUE, "idle", "get_skeleton", <<>>, <<>>, "none", t.calls + 1)

initialize_attempt_RetryOnError(t, reply) ==
    LET attempt == Len(t.replies) + 1
        sent == [t EXCEPT !.replies = Append(@, reply),
                          !.used = Append(@, timeouts[attempt])]
    IN IF reply = "200"
       THEN [sent EXCEPT !.initialized = TRUE, !.ret = "True", !.at = "idle"]
       ELSE IF attempt < Len(timeouts) THEN sent
       ELSE [sent EXCEPT !.ret = "False", !.at = "idle"]

\* one pass of the attempt loop of initialize_mcp
initialize_attempt(t, reply) ==
    LET attempt == Len(t.replies) + 1
        sent == [t EXCEPT !.replies = Append(@, reply),
                          !.used = Append(@, timeouts[attempt])]
    IN IF reply = "200"
       THEN [sent EXCEPT !.initialized = TRUE, !.ret = "True", !.at = "idle"]
       ELSE IF reply \in {"500", "timeout"} /\ attempt < Len(timeouts) THEN sent
       ELSE [sent EXCEPT !.ret = "False", !.at = "idle"]

(***************************************************************************)
(* Operations on the suite object                                          *)
(***************************************************************************)
log_test_Prepend(name, success, details, severity) ==
    /\ test_results' = <<TestOutcome(name, success, details, severity)>> \o test_results
    /\ passed' = IF success THEN passed + 1 ELSE passed
    /\ failed' = IF success THEN failed ELSE failed + 1

log_test_CountAllPassed(name, success, details, severity) ==
    /\ test_results' = Append(test_results, TestOutcome(name, success, details, severity))
    /\ passed' = passed + 1
    /\ failed' = failed

log_test(name, success, details, severity) ==
    /\ test_results' = Append(test_results, TestOutcome(name, success, details, severity))
    /\ passed' = IF success THEN passed + 1 ELSE passed
    /\ failed' = IF success THEN failed ELSE failed + 1

print_production_summary_Drain ==
    /\ summary' = SummaryOf(test_results, passed, failed)
    /\ test_results' = <<>>
    /\ passed' = 0
    /\ failed' = 0

print_production_summary ==
    /\ summary' = SummaryOf(test_results, passed, failed)
    /\ UNCHANGED suite_vars

(***************************************************************************)
(* The suite object under free calls of its methods                        *)
(***************************************************************************)
Init ==
    /\ test_results = <<>>
    /\ passed = 0
    /\ failed = 0
    /\ summary = NoSummary
    /\ pc = "idle"
    /\ v_file = MissingFile
    /\ v_claim = NoClaim
    /\ v_out = NoOutcome
    /\ project = NoProject
    /\ corpus = NoCorpus
    /\ exchange = NoExchange
    /\ tool_result = NoResult
    /\ caller = "none"
    /\ sk_language = "none"
    /\ sk_results = <<>>
    /\ sk_summary = NoSkeletonSummary
    /\ orders = NoOrders
    /\ tester = NoTester

LogTest ==
    /\ Len(test_results) < MaxLog
    /\ \E name \in TestNames, success \in BOOLEAN, details \in TestDetails,
          severity \in Severities :
           log_test(name, success, details, severity)
    /\ UNCHANGED <<summary, pc, v_file, v_claim, v_out, project, corpus, call_vars, skeleton_vars, aux_vars>>

PrintSummary ==
    /\ print_production_summary
    /\ UNCHANGED <<pc, v_file, v_claim, v_out, project, corpus, call_vars, skeleton_vars, aux_vars>>

Next == LogTest \/ PrintSummary

Spec == Init /\ [][Next]_vars

(***************************************************************************)
(* The verifier applied to one claim                                       *)
(***************************************************************************)
InitVerify ==
    /\ test_results = <<>>
    /\ passed = 0
    /\ failed = 0
    /\ summary = NoSummary
    /\ pc = "verify"
    /\ v_file \in VerifyFiles
    /\ v_claim \in VerifyClaims
    /\ v_out = NoOutcome
    /\ project = NoProject
    /\ corpus = NoCorpus
    /\ exchange = NoExchange
    /\ tool_result = NoResult
    /\ caller = "none"
    /\ sk_language = "none"
    /\ sk_results = <<>>
    /\ sk_summary = NoSkeletonSummary
    /\ orders = NoOrders
    /\ tester = NoTester

Verify ==
    /\ pc = "verify"
    /\ v_out' = verify_symbol_definition_precise(v_file, v_claim.name, v_claim.start_line,
                                                  v_claim.end_line, v_claim.kind)
    /\ pc' = "verified"
    /\ UNCHANGED <<test_results, passed, failed, summary, v_file, v_claim, project, corpus, call_vars, skeleton_vars, aux_vars>>

NextVerify == Verify

SpecVerify == InitVerify /\ [][NextVerify]_vars

(***************************************************************************)
(* One run of run_production_tests on a fresh suite object                 *)
(***************************************************************************)
\* the answers of the backend to a tool call
Responses(values) == FailureResponses \cup {OkResponse(v) : v \in values}

\* the outcomes of GET /test
ConnectivityResults == {"200", "500", "exception"}

LangPc == <<"lang_rust", "lang_csharp", "lang_python">>

InitRun ==
    /\ test_results = <<>>
    /\ passed = 0
    /\ failed = 0
    /\ summary = NoSummary
    /\ pc = "start"
    /\ v_file = MissingFile
    /\ v_claim = NoClaim
    /\ v_out = NoOutcome
    /\ project \in Projects
    /\ corpus = NoCorpus
    /\ exchange = NoExchange
    /\ tool_result = NoResult
    /\ caller = "none"
    /\ sk_language = "none"
    /\ sk_results = <<>>
    /\ sk_summary = NoSkeletonSummary
    /\ orders = NoOrders
    /\ tester = NoTester

\* a case logs its outcome and the run goes on, or the case raises and the
\* exception ends the run
RunCase(name, o, next) ==
    IF o.crash
    THEN pc' = "crashed" /\ UNCHANGED suite_vars
    ELSE log_test(name, o.success, o.details, o.severity) /\ pc' = next

Connectivity ==
    /\ pc = "start"
    /\ \E status \in ConnectivityResults :
           pc' = IF status = "200" THEN "core_def" ELSE "returned"
    /\ UNCHANGED <<suite_vars, summary, verify_vars, project, corpus, call_vars, skeleton_vars, aux_vars>>

CoreDefinition ==
    /\ pc = "core_def"
    /\ \E resp \in Responses(DefinitionValues) :
           RunCase("Core: Config struct definition",
                   CoreDefinitionCase(project, call_mcp_tool(resp)), "core_ref")
    /\ UNCHANGED <<summary, verify_vars, project, corpus, call_vars, skeleton_vars, aux_vars>>

CoreReference ==
    /\ pc = "core_ref"
    /\ \E resp \in Responses(ReferenceValues) :
           RunCase("Core: Function reference accuracy",
                   CoreReferenceCase(project, call_mcp_tool(resp)), "core_graph")
    /\ UNCHANGED <<summary, verify_vars, project, corpus, call_vars, skeleton_vars, aux_vars>>

CoreSubgraph ==
    /\ pc = "core_graph"
    /\ \E resp \in Responses(SubgraphValues) :
           RunCase("Core: Symbol subgraph connectivity",
                   CoreSubgraphCase(call_mcp_tool(resp)), LangPc[1])
    /\ UNCHANGED <<summary, verify_vars, project, corpus, call_vars, skeleton_vars, aux_vars>>

LanguageName(i) == "Language: " \o language_tests[i].language

Language ==
    /\ \E i \in 1..Len(language_tests) :
           /\ pc = LangPc[i]
           /\ \E resp \in Responses(AnalyzeValues) :
                  RunCase(LanguageName(i),
                          LanguageCase(project, language_tests[i], call_mcp_tool(resp)),
                          IF i < Len(language_tests) THEN LangPc[i + 1] ELSE "csharp")
    /\ UNCHANGED <<summary, verify_vars, project, corpus, call_vars, skeleton_vars, aux_vars>>

CSharpStart ==
    /\ pc = "csharp"
    /\ IF ~project.csharp_dir
       THEN /\ log_test("C# Comprehensive", FALSE,
                        Details("C# test directory not found", <<>>), "CRITICAL")
            /\ pc' = "perf_time"
            /\ UNCHANGED corpus
       ELSE /\ corpus' = Corpus(0, 0, 0, 0)
            /\ pc' = "csharp_files"
            /\ UNCHANGED suite_vars
    /\ UNCHANGED <<summary, verify_vars, project, call_vars, skeleton_vars, aux_vars>>

CSharpFile ==
    /\ pc = "csharp_files"
    /\ corpus.i < Len(project.csharp_files)
    /\ \E resp \in Responses(AnalyzeValues) :
           LET result == call_mcp_tool(resp)
               path == project.csharp_files[corpus.i + 1]
           IN IF CSharpFileRaises(result)
              THEN pc' = "crashed" /\ UNCHANGED corpus
              ELSE /\ corpus' = CSharpFileStep(project, corpus, path, result)
                   /\ pc' = pc
    /\ UNCHANGED <<suite_vars, summary, verify_vars, project, call_vars, skeleton_vars, aux_vars>>

CSharpLog ==
    /\ pc = "csharp_files"
    /\ corpus.i = Len(project.csharp_files)
    /\ RunCase("C# Comprehensive Accuracy",
               CSharpCase(Len(project.csharp_files), corpus), "perf_time")
    /\ UNCHANGED <<summary, verify_vars, project, corpus, call_vars, skeleton_vars, aux_vars>>

\* a timeout of the call takes the 30 seconds of its limit
PerfTime ==
    /\ pc = "perf_time"
    /\ \E resp \in Responses(AnalyzeValues), response_time \in ResponseTimes :
           /\ resp.transport = "timeout" => response_time > 30
           /\ RunCase("Performance: Response time",
                      PerfTimeCase(response_time, call_mcp_tool(resp)), "perf_error")
    /\ UNCHANGED <<summary, verify_vars, project, corpus, call_vars, skeleton_vars, aux_vars>>

PerfError ==
    /\ pc = "perf_error"
    /\ \E resp \in Responses(AnalyzeValues) :
           RunCase("Reliability: Error handling",
                   PerfErrorCase(call_mcp_tool(resp)), "perf_large")
    /\ UNCHANGED <<summary, verify_vars, project, corpus, call_vars, skeleton_vars, aux_vars>>

PerfLarge ==
    /\ pc = "perf_large"
    /\ \E resp \in Responses(AnalyzeValues) :
           RunCase("Reliability: Large file handling",
                   PerfLargeCase(call_mcp_tool(resp)), "summary")
    /\ UNCHANGED <<summary, verify_vars, project, corpus, call_vars, skeleton_vars, aux_vars>>

Summary ==
    /\ pc = "summary"
    /\ print_production_summary
    /\ pc' = "done"
    /\ UNCHANGED <<verify_vars, project, corpus, call_vars, skeleton_vars, aux_vars>>

\* the value of a return statement without an expression, and of a body
\* that ends without return
PyNone == [none |-> TRUE]

\* a Boolean as a Python value
PyBool(b) == [bool |-> b]

\* the truth value of what run_production_tests hands to main
Truthy(v) == "bool" \in DOMAIN v /\ v.bool

\* main after run_production_tests came back: every return of
\* run_production_tests is bare and the value of print_production_summary
\* is dropped, so production_ready is None; an exception of a case leaves
\* main through the traceback instead
Main ==
    /\ pc \in {"done", "returned"}
    /\ LET production_ready == PyNone
       IN pc' = IF Truthy(production_ready) THEN "exit_0" ELSE "exit_1"
    /\ UNCHANGED <<suite_vars, summary, verify_vars, project, corpus, call_vars,
                   skeleton_vars, aux_vars>>

NextRun ==
    \/ Connectivity
    \/ CoreDefinition
    \/ CoreReference
    \/ CoreSubgraph
    \/ Language
    \/ CSharpStart
    \/ CSharpFile
    \/ CSharpLog
    \/ PerfTime
    \/ PerfError
    \/ PerfLarge
    \/ Summary
    \/ Main

SpecRun == InitRun /\ [][NextRun]_vars

(***************************************************************************)
(* One tool call and the rest of the case that made it                     *)
(***************************************************************************)
Callers ==
    {"core_def", "core_ref", "core_graph", "lang_rust", "lang_csharp", "lang_python",
     "csharp_files", "perf_time", "perf_error", "perf_large"}

\* the counters of the corpus case when the call for its last file is made
PriorCorpora ==
    {CSharpFileStep(FullProject, Corpus(0, 0, 0, 0), P_cs, call_mcp_tool(r)) :
        r \in {q \in Responses(AnalyzeValues) : ~CSharpFileRaises(call_mcp_tool(q))}}

InitCall ==
    /\ test_results = <<>>
    /\ passed = 0
    /\ failed = 0
    /\ summary = NoSummary
    /\ pc = "call"
    /\ v_file = MissingFile
    /\ v_claim = NoClaim
    /\ v_out = NoOutcome
    /\ caller \in Callers
    /\ project \in IF caller = "csharp_files" THEN {FullProject} ELSE Projects
    /\ corpus \in IF caller = "csharp_files" THEN PriorCorpora ELSE {NoCorpus}
    /\ exchange \in Exchanges
    /\ tool_result = NoResult
    /\ sk_language = "none"
    /\ sk_results = <<>>
    /\ sk_summary = NoSkeletonSummary
    /\ orders = NoOrders
    /\ tester = NoTester

Call ==
    /\ pc = "call"
    /\ tool_result' = call_mcp_tool(ResponseOf(exchange))
    /\ pc' = "handle"
    /\ UNCHANGED <<suite_vars, summary, verify_vars, project, corpus, exchange, caller,
                   skeleton_vars, aux_vars>>

\* the case goes on with the result of its call
Handle ==
    /\ pc = "handle"
    /\ IF caller = "core_def"
       THEN RunCase("Core: Config struct definition",
                    CoreDefinitionCase(project, tool_result), "handled")
            /\ UNCHANGED corpus
       ELSE IF caller = "core_ref"
       THEN RunCase("Core: Function reference accuracy",
                    CoreReferenceCase(project, tool_result), "handled")
            /\ UNCHANGED corpus
       ELSE IF caller = "core_graph"
       THEN RunCase("Core: Symbol subgraph connectivity",
                    CoreSubgraphCase(tool_result), "handled")
            /\ UNCHANGED corpus
       ELSE IF \E i \in 1..Len(LangPc) : caller = LangPc[i]
       THEN LET i == CHOOSE k \in 1..Len(LangPc) : caller = LangPc[k]
            IN RunCase(LanguageName(i),
                       LanguageCase(project, language_tests[i], tool_result), "handled")
               /\ UNCHANGED corpus
       ELSE IF caller = "csharp_files"
       THEN IF CSharpFileRaises(tool_result)
            THEN pc' = "crashed" /\ UNCHANGED <<suite_vars, corpus>>
            ELSE LET c == CSharpFileStep(project, corpus,
                                         project.csharp_files[corpus.i + 1], tool_result)
                 IN /\ corpus' = c
                    /\ RunCase("C# Comprehensive Accuracy",
                               CSharpCase(Len(project.csharp_files), c), "handled")
       ELSE IF caller = "perf_time"
       THEN /\ \E response_time \in ResponseTimes :
                  /\ exchange.transport = "timeout" => response_time > 30
                  /\ RunCase("Performance: Response time",
                             PerfTimeCase(response_time, tool_result), "handled")
            /\ UNCHANGED corpus
       ELSE IF caller = "perf_error"
       THEN RunCase("Reliability: Error handling", PerfErrorCase(tool_result), "handled")
            /\ UNCHANGED corpus
       ELSE RunCase("Reliability: Large file handling", PerfLargeCase(tool_result),
                    "handled")
            /\ UNCHANGED corpus
    /\ UNCHANGED <<summary, verify_vars, project, exchange, tool_result, caller,
                   skeleton_vars, aux_vars>>

NextCall == Call \/ Handle

SpecCall == InitCall /\ [][NextCall]_vars

(***************************************************************************)
(* The skeleton test of the files of one language, then its summary        *)
(***************************************************************************)
InitSkeleton ==
    /\ test_results = <<>>
    /\ passed = 0
    /\ failed = 0
    /\ summary = NoSummary
    /\ pc = "sk_files"
    /\ v_file = MissingFile
    /\ v_claim = NoClaim
    /\ v_out = NoOutcome
    /\ project = NoProject
    /\ corpus = NoCorpus
    /\ exchange = NoExchange
    /\ tool_result = NoResult
    /\ caller = "none"
    /\ sk_language \in Languages
    /\ sk_results = <<>>
    /\ sk_summary = NoSkeletonSummary
    /\ orders = NoOrders
    /\ tester = NoTester

\* one iteration of the file loop of run_comprehensive_test
TestFile ==
    /\ pc = "sk_files"
    /\ Len(sk_results) < MaxFiles
    /\ \E file \in SuiteFiles(sk_language), answer \in Skeletons(sk_language) :
           LET result == test_file_comprehensive(file, sk_language, answer)
           IN sk_results' = IF result = NoFileResult THEN sk_results
                            ELSE Append(sk_results, result)
    /\ UNCHANGED <<suite_vars, summary, pc, verify_vars, project, corpus, call_vars,
                   sk_language, sk_summary, aux_vars>>

\* print_summary on the results of the language
SkeletonSummary ==
    /\ pc = "sk_files"
    /\ sk_summary' = LanguageSummary(sk_results)
    /\ pc' = "sk_done"
    /\ UNCHANGED <<suite_vars, summary, verify_vars, project, corpus, call_vars,
                   sk_language, sk_results, aux_vars>>

NextSkeleton == TestFile \/ SkeletonSummary

SpecSkeleton == InitSkeleton /\ [][NextSkeleton]_vars

(***************************************************************************)
(* OrderService under free calls of its operations                         *)
(***************************************************************************)
\* the ids a caller may pass: those of the orders and one of no order
OrderIds == 1..(MaxOrders + 1)

InitOrders ==
    /\ test_results = <<>>
    /\ passed = 0
    /\ failed = 0
    /\ summary = NoSummary
    /\ pc = "orders"
    /\ v_file = MissingFile
    /\ v_claim = NoClaim
    /\ v_out = NoOutcome
    /\ project = NoProject
    /\ corpus = NoCorpus
    /\ exchange = NoExchange
    /\ tool_result = NoResult
    /\ caller = "none"
    /\ sk_language = "none"
    /\ sk_results = <<>>
    /\ sk_summary = NoSkeletonSummary
    /\ orders = Service(<<>>, InitialStock, "init", "none")
    /\ tester = NoTester

OrderUnchanged ==
    UNCHANGED <<suite_vars, summary, pc, verify_vars, project, corpus, call_vars,
                skeleton_vars, tester>>

CreateOrder ==
    /\ pc = "orders"
    /\ Len(orders.repo) < MaxOrders
    /\ orders' = create_order(orders)
    /\ OrderUnchanged

AddProduct ==
    /\ pc = "orders"
    /\ \E order_id \in OrderIds : orders' = add_product_to_order(orders, order_id)
    /\ OrderUnchanged

UpdateOrderStatus ==
    /\ pc = "orders"
    /\ \E order_id \in OrderIds, new_status \in OrderStatuses :
           orders' = update_order_status(orders, order_id, new_status)
    /\ OrderUnchanged

CancelOrder ==
    /\ pc = "orders"
    /\ \E order_id \in OrderIds : orders' = cancel_order(orders, order_id)
    /\ OrderUnchanged

NextOrders == CreateOrder \/ AddProduct \/ UpdateOrderStatus \/ CancelOrder

SpecOrders == InitOrders /\ [][NextOrders]_vars

(***************************************************************************)
(* A SkeletonTester whose initialize_mcp and get_skeleton are called       *)
(***************************************************************************)
InitTester ==
    /\ test_results = <<>>
    /\ passed = 0
    /\ failed = 0
    /\ summary = NoSummary
    /\ pc = "tester"
    /\ v_file = MissingFile
    /\ v_claim = NoClaim
    /\ v_out = NoOutcome
    /\ project = NoProject
    /\ corpus = NoCorpus
    /\ exchange = NoExchange
    /\ tool_result = NoResult
    /\ caller = "none"
    /\ sk_language = "none"
    /\ sk_results = <<>>
    /\ sk_summary = NoSkeletonSummary
    /\ orders = NoOrders
    /\ tester = Tester(FALSE, "idle", "none", <<>>, <<>>, "none", 0)

TesterUnchanged ==
    UNCHANGED <<suite_vars, summary, pc, verify_vars, project, corpus, call_vars,
                skeleton_vars, orders>>

\* main, or the interactive loop, calls initialize_mcp
InitializeMcp ==
    /\ pc = "tester"
    /\ tester.at = "idle"
    /\ tester.calls < MaxCalls
    /\ tester' = initialize_mcp(tester, "main")
    /\ TesterUnchanged

GetSkeleton ==
    /\ pc = "tester"
    /\ tester.at = "idle"
    /\ tester.calls < MaxCalls
    /\ tester' = get_skeleton(tester)
    /\ TesterUnchanged

\* the initialization request of the current attempt is answered
Attempt ==
    /\ pc = "tester"
    /\ tester.at = "attempt"
    /\ \E reply \in Replies : tester' = initialize_attempt(tester, reply)
    /\ TesterUnchanged

NextTester == InitializeMcp \/ GetSkeleton \/ Attempt

SpecTester == InitTester /\ [][NextTester]_vars

(***************************************************************************)
(* Properties of the outcome log and the readiness summary                 *)
(***************************************************************************)
HasCriticalFailure(results) ==
    \E i \in 1..Len(results) : ~results[i].success /\ results[i].severity = "CRITICAL"

NumPassed(results) == Cardinality({i \in 1..Len(results) : results[i].success})

NumFailed(results) == Cardinality({i \in 1..Len(results) : ~results[i].success})

\* a step that printed a summary
Summarised == summary' # summary

\* C1: whenever a summary is computed for a log holding a failed CRITICAL
\* entry, its verdict is NOT READY, whatever the success rate.
C1_CriticalVeto ==
    [][(Summarised /\ HasCriticalFailure(test_results) )
         => summary'.status = "NOT READY (Critical Issues)"]_vars

\* a NOT READY summary of a log with a failed CRITICAL entry and a rate >= 80
C1_Witness ==
    /\ summary.status = "NOT READY (Critical Issues)"
    /\ summary.critical_failures > 0
    /\ summary.rate_num >= 80 * summary.rate_den

\* C2 as stated: without a failed CRITICAL entry the verdict is READY exactly
\* when passed * 100 >= 80 * total, and MOSTLY READY otherwise, for every log.
C2_Threshold_AnyLog ==
    [][(Summarised /\ ~HasCriticalFailure(test_results) )
         => summary'.status =
              IF NumPassed(test_results) * 100 >= 80 * Len(test_results)
              THEN "PRODUCTION READY" ELSE "MOSTLY READY (Minor Issues)"]_vars

\* C2 amended: the same for every non-empty log; the empty log, whose success
\* rate is 0, is MOSTLY READY.
C2_Threshold ==
    [][(Summarised /\ ~HasCriticalFailure(test_results) )
         => summary'.status =
              IF Len(test_results) > 0
                 /\ NumPassed(test_results) * 100 >= 80 * Len(test_results)
              THEN "PRODUCTION READY" ELSE "MOSTLY READY (Minor Issues)"]_vars

\* a READY summary of a log whose success rate is exactly 80
C2_Witness ==
    /\ summary.status = "PRODUCTION READY"
    /\ summary.total = Len(test_results)
    /\ summary.failed > 0
    /\ summary.passed * 100 = 80 * summary.total

\* C3: the counters are a projection of the log.
C3_CountLaw ==
    /\ passed + failed = Len(test_results)
    /\ passed = NumPassed(test_results)
    /\ failed = NumFailed(test_results)

C3_Witness == passed >= 1 /\ failed >= 1 /\ pc = "idle"

\* C7: every step leaves the log unchanged or appends exactly one entry at
\* its end; logged entries are never modified, removed or reordered.
C7_AppendOnly ==
    [][\/ test_results' = test_results
       \/ /\ Len(test_results') = Len(test_results) + 1
          /\ SubSeq(test_results', 1, Len(test_results)) = test_results]_vars

\* a finished run: ten cases logged after their backend calls and
\* verifications, and the summary printed
C7_Witness ==
    /\ pc = "done"
    /\ Len(test_results) = 10
    /\ test_results[1] # test_results[2]
    /\ summary.total = Len(test_results)

(***************************************************************************)
(* Properties of a run                                                     *)
(***************************************************************************)
Logged(name) == \E i \in 1..Len(test_results) : test_results[i].name = name

CoreCaseNames ==
    {"Core: Config struct definition", "Core: Function reference accuracy",
     "Core: Symbol subgraph connectivity"}

LanguageCaseNames == {LanguageName(i) : i \in 1..Len(language_tests)}

PerfCaseNames ==
    {"Performance: Response time", "Reliability: Error handling",
     "Reliability: Large file handling"}

AllCasesLogged ==
    /\ \A name \in CoreCaseNames \cup LanguageCaseNames \cup PerfCaseNames : Logged(name)
    /\ Logged("C# Comprehensive Accuracy") \/ Logged("C# Comprehensive")

\* C8: a run whose cases have started ends only after every case of the four
\* groups has logged an outcome and the summary has been printed.
C8_AllCasesExecute ==
    (pc \in {"done", "crashed"}) => (AllCasesLogged /\ summary.status # "NONE")

\* C9: a run that ends at a failed connectivity check has logged a failed
\* CRITICAL outcome and its verdict is NOT READY.
C9_ConnectivityRecorded ==
    (pc = "returned")
        => /\ HasCriticalFailure(test_results)
           /\ summary.status = "NOT READY (Critical Issues)"

\* the details logged when the lookup of Config fails because of a backend
\* error, a payload without definitions, or no definition in config.rs
LookupFailureDetails ==
    {Details(ErrorText, <<>>), Details("Unknown error", <<>>),
     Details("Config definition not found in config.rs", <<>>)}

\* C10: a failed outcome of the definition lookup case, logged for one of
\* these causes, has severity CRITICAL.
C10_LookupCritical ==
    \A i \in 1..Len(test_results) :
        (/\ test_results[i].name = "Core: Config struct definition"
         /\ ~test_results[i].success
         /\ test_results[i].details \in LookupFailureDetails)
            => test_results[i].severity = "CRITICAL"

\* C27 as stated: the process exits with status 0 exactly when the run ended
\* with the verdict PRODUCTION READY, which is exactly when
\* print_production_summary returned true; otherwise it exits with status 1.
C27_ExitStatus ==
    pc \in {"exit_0", "exit_1"}
        => /\ pc = "exit_0" <=> summary.status = "PRODUCTION READY"
           /\ summary.status = "PRODUCTION READY" <=> summary.ret

\* the entries logged by the corpus case after its file loop
CorpusEntries ==
    {i \in 1..Len(test_results) : test_results[i].name = "C# Comprehensive Accuracy"}

\* C28: during and after the file loop of the corpus case the verified
\* symbols never exceed the symbols seen and the successful files never
\* exceed the files visited, of which there are at most total_files; the
\* numbers logged by the case give rates between 0 and 100.
C28_CorpusBounded ==
    /\ 0 <= corpus.verified_symbols /\ corpus.verified_symbols <= corpus.total_symbols
    /\ 0 <= corpus.successful_files /\ corpus.successful_files <= corpus.i
    /\ corpus.i <= Len(project.csharp_files)
    /\ \A i \in CorpusEntries :
           LET nums == test_results[i].details.nums
           IN /\ 0 <= nums[1] * 100 /\ nums[1] * 100 <= 100 * nums[2]
              /\ 0 <= nums[3] * 100 /\ nums[3] * 100 <= 100 * nums[4]

\* the file loop has visited both files: one gave a verified symbol, the
\* other symbols that do not verify
C28_Witness ==
    /\ pc = "csharp_files"
    /\ corpus.i = Len(project.csharp_files)
    /\ corpus.i >= 2
    /\ 0 < corpus.successful_files /\ corpus.successful_files < corpus.i
    /\ 0 < corpus.verified_symbols /\ corpus.verified_symbols < corpus.total_symbols

(***************************************************************************)
(* Properties of the verifier                                              *)
(***************************************************************************)
\* the lines of the file under verification, as the verifier counts them
VLines == SplitLines(v_file.content)

\* the claimed range lies in the file
VRangeBad == v_claim.start_line < 1 \/ v_claim.end_line > Len(VLines)

VRangeValid ==
    /\ 1 <= v_claim.start_line
    /\ v_claim.start_line <= v_claim.end_line
    /\ v_claim.end_line <= Len(VLines)

\* the inclusive line slice [start_line, end_line]
VSlice == JoinLines(SubSeq(VLines, v_claim.start_line, v_claim.end_line))

\* C4 as stated: a bad range is answered with the range error, for every
\* file that exists.
C4_RangeCheck_AnyFile ==
    (pc = "verified" /\ v_file.exists /\ VRangeBad) => v_out = Outcome(FALSE, R_Range)

\* C4 amended: a bad range on a file with non-empty content is answered with
\* the range error, whether or not the name occurs in the file.
C4_RangeCheck ==
    (pc = "verified" /\ v_file.content # <<>> /\ VRangeBad)
        => v_out = Outcome(FALSE, R_Range)

\* a range error on a file that holds the name
C4_Witness ==
    /\ pc = "verified"
    /\ VRangeBad
    /\ Contains(v_claim.name, v_file.content)
    /\ v_out = Outcome(FALSE, R_Range)

\* C5 as stated: a valid range without the name is answered with name not
\* found, for every file that exists.
C5_NameAbsent_AnyFile ==
    (pc = "verified" /\ v_file.exists /\ VRangeValid /\ ~Contains(v_claim.name, VSlice))
        => v_out = Outcome(FALSE, R_NotFound)

\* C5 amended: on a file with non-empty content, a valid range whose slice
\* does not hold the name is answered with name not found, for every kind.
C5_NameAbsent ==
    (pc = "verified" /\ v_file.content # <<>> /\ VRangeValid
       /\ ~Contains(v_claim.name, VSlice))
        => v_out = Outcome(FALSE, R_NotFound)

\* name not found although the file holds the name outside the slice, and
\* the slice holds it in another letter case
C5_Witness ==
    /\ pc = "verified"
    /\ VRangeValid
    /\ ~Contains(v_claim.name, VSlice)
    /\ Contains(LowerStr(v_claim.name), LowerStr(VSlice))
    /\ Contains(v_claim.name, v_file.content)
    /\ v_out = Outcome(FALSE, R_NotFound)

\* C6: a valid range whose slice holds the name, with no pattern of the
\* claimed kind matching, is verified with the fallback reason.
C6_Fallback ==
    (pc = "verified" /\ VRangeValid /\ Contains(v_claim.name, VSlice)
       /\ ~PatternFound(v_claim.kind, v_claim.name, VSlice))
        => v_out = Outcome(TRUE, R_Fallback)

\* a fallback acceptance for a known kind
C6_Witness ==
    /\ pc = "verified"
    /\ VRangeValid
    /\ LowerStr(v_claim.kind) \in PatternKinds
    /\ v_out = Outcome(TRUE, R_Fallback)

\* C21 as stated, on files with content: a claim whose range is not
\* 1 <= start_line <= end_line <= line count is answered with the range
\* error, never with name not found and never as verified.
C21_BadRangeReason ==
    (pc = "verified" /\ v_file.content # <<>> /\ ~VRangeValid)
        => v_out = Outcome(FALSE, R_Range)

\* the keywords of the class patterns
ClassKeywords == {Kw_class, Kw_struct, Kw_interface, Kw_type}

\* text holds the keyword in any letter case, then at least one whitespace
\* character, then the name as written
KeywordThenName(kw, name, text) ==
    \E i \in 1..Len(text), j \in 1..Len(text) :
        /\ i + Len(kw) < j
        /\ j + Len(name) - 1 <= Len(text)
        /\ LowerStr(SubSeq(text, i, i + Len(kw) - 1)) = kw
        /\ \A k \in (i + Len(kw))..(j - 1) : IsSpace(text[k])
        /\ SubSeq(text, j, j + Len(name) - 1) = name

\* C24: a claim of kind class, in any letter case, with a valid range whose
\* slice holds class, struct, interface or type, then whitespace, then the
\* name, is verified with the definition-pattern reason.
C24_ClassPattern ==
    (pc = "verified" /\ VRangeValid /\ LowerStr(v_claim.kind) = Kind_class
       /\ \E kw \in ClassKeywords : KeywordThenName(kw, v_claim.name, VSlice))
        => v_out = Outcome(TRUE, R_Pattern)

\* the kind written Class and the keyword written in another case than the
\* pattern, over a slice of two lines
C24_Witness ==
    /\ pc = "verified"
    /\ VRangeValid
    /\ v_claim.start_line < v_claim.end_line
    /\ v_claim.kind # Kind_class
    /\ LowerStr(v_claim.kind) = Kind_class
    /\ \E kw \in ClassKeywords :
           /\ KeywordThenName(kw, v_claim.name, VSlice)
           /\ ~Contains(kw, VSlice)
    /\ v_out = Outcome(TRUE, R_Pattern)

\* the answer for the file, name and range under verification when the claim
\* names the kind k
AnswerForKind(k) ==
    verify_symbol_definition_precise(v_file, v_claim.name, v_claim.start_line,
                                     v_claim.end_line, k)

\* C25: the verified flag of the answer is the one every other kind would
\* get for the same file, name and range, and on an existing file with a
\* valid range it is true exactly when the slice holds the name.
C25_KindIrrelevant ==
    pc = "verified"
        => /\ \A k \in VerifyKinds : AnswerForKind(k).verified = v_out.verified
           /\ (v_file.exists /\ VRangeValid)
                => (v_out.verified <=> Contains(v_claim.name, VSlice))

\* an unknown kind verified with the fallback reason where the kind class
\* gets the pattern reason
C25_Witness ==
    /\ pc = "verified"
    /\ VRangeValid
    /\ LowerStr(v_claim.kind) \notin PatternKinds
    /\ v_out = Outcome(TRUE, R_Fallback)
    /\ AnswerForKind(Kind_class) = Outcome(TRUE, R_Pattern)

(***************************************************************************)
(* Properties of the summary                                               *)
(***************************************************************************)
Verdicts ==
    {"PRODUCTION READY", "MOSTLY READY (Minor Issues)", "NOT READY (Critical Issues)"}

\* C13: a summary always has a success rate, passed / total * 100 for a
\* non-empty log and 0 for the empty log, and a verdict.
C13_RateTotal ==
    [][Summarised
         => /\ summary'.rate_den > 0
            /\ Len(test_results) > 0
                 => summary'.rate_num * Len(test_results)
                      = NumPassed(test_results) * 100 * summary'.rate_den
            /\ Len(test_results) = 0 => summary'.rate_num = 0
            /\ summary'.status \in Verdicts]_vars

\* the summary of an empty run
C13_Witness ==
    /\ test_results = <<>>
    /\ summary.status \in Verdicts
    /\ summary.total = 0
    /\ summary.rate_num = 0

\* the rank of an issue in the order CRITICAL, WARNING, INFO
IssueRank(issue) ==
    IF issue.icon = "alarm" THEN 1 ELSE IF issue.icon = "warning" THEN 2 ELSE 3

FailedOfSeverity(results, severity) ==
    LET Is(r) == ~r.success /\ r.severity = severity
    IN SelectSeq(results, Is)

IssuesOfRank(issues, rank) ==
    LET Is(issue) == IssueRank(issue) = rank
    IN SelectSeq(issues, Is)

NameAndDetails(entries) ==
    [i \in 1..Len(entries) |-> <<entries[i].name, entries[i].details>>]

\* C16: the issue list of the final summary is ordered CRITICAL, WARNING,
\* INFO, entries of one severity keeping their execution order.
C16_IssueOrder ==
    (pc = "done")
        => /\ \A i, j \in 1..Len(summary.issues) :
                  i < j => IssueRank(summary.issues[i]) <= IssueRank(summary.issues[j])
           /\ NameAndDetails(IssuesOfRank(summary.issues, 1))
                = NameAndDetails(FailedOfSeverity(test_results, "CRITICAL"))
           /\ NameAndDetails(IssuesOfRank(summary.issues, 2))
                = NameAndDetails(FailedOfSeverity(test_results, "WARNING"))
           /\ NameAndDetails(IssuesOfRank(summary.issues, 3))
                = NameAndDetails(FailedOfSeverity(test_results, "INFO"))

\* how many entries of a sequence have a name and details
Occurrences(entries, name, details) ==
    Cardinality({k \in 1..Len(entries) :
                    entries[k].name = name /\ entries[k].details = details})

FailedEntries(results) ==
    LET Is(r) == ~r.success
    IN SelectSeq(results, Is)

\* C17: the issue list of the final summary holds each failed entry of the
\* log exactly once, with its name and details, and no passed entry.
C17_IssueCompleteness ==
    (pc = "done")
        => /\ Len(summary.issues) = NumFailed(test_results)
           /\ \A i \in 1..Len(test_results) :
                  Occurrences(summary.issues, test_results[i].name, test_results[i].details)
                    = Occurrences(FailedEntries(test_results), test_results[i].name,
                                  test_results[i].details)

\* a finished run with failed entries of two severities and passed entries
C17_Witness ==
    /\ pc = "done"
    /\ Len(summary.issues) >= 2
    /\ NumPassed(test_results) >= 2
    /\ \E i, j \in 1..Len(summary.issues) :
           summary.issues[i].icon = "info" /\ summary.issues[j].icon = "warning"

\* the summary was computed on the log as it is now
SummaryCurrent == summary.status \in Verdicts /\ summary.total = Len(test_results)

\* C18: printing the summary leaves the log and the counters unchanged, and
\* printing it again on an unchanged log gives the same summary.
C18_SummaryReadOnly ==
    [][/\ Summarised => UNCHANGED suite_vars
       /\ (SummaryCurrent /\ test_results' = test_results) => summary' = summary]_vars

\* a summary of a non-empty log that is still the log
C18_Witness ==
    /\ SummaryCurrent
    /\ Len(test_results) >= 2
    /\ passed + failed = Len(test_results)
    /\ pc = "idle"

\* the outcomes logged by the C# corpus case
CorpusOutcomes ==
    Cardinality({i \in 1..Len(test_results) :
                    test_results[i].name \in {"C# Comprehensive Accuracy",
                                              "C# Comprehensive"}})

\* C19: once the C# corpus case has been invoked and left, it has appended
\* exactly one outcome.
C19_OneOutcomePerCorpus ==
    (Logged(LanguageName(Len(language_tests))) /\ pc \notin {"csharp", "csharp_files"})
        => CorpusOutcomes = 1

\* the suite object after log_test was called once per entry, in the order
\* of the entries
RECURSIVE Replay(_)
Replay(entries) ==
    IF entries = <<>> THEN [test_results |-> <<>>, passed |-> 0, failed |-> 0]
    ELSE LET before == Replay(SubSeq(entries, 1, Len(entries) - 1))
             last == entries[Len(entries)]
         IN [test_results |-> Append(before.test_results, last),
             passed |-> IF last.success THEN before.passed + 1 ELSE before.passed,
             failed |-> IF last.success THEN before.failed ELSE before.failed + 1]

\* the entries with the neighbours at i and i + 1 exchanged
SwapAt(entries, i) ==
    [k \in 1..Len(entries) |->
        IF k = i THEN entries[i + 1] ELSE IF k = i + 1 THEN entries[i] ELSE entries[k]]

\* what the claim compares: total, passed, failed, the success rate, the two
\* counts and the verdict
Metrics(sum) ==
    <<sum.total, sum.passed, sum.failed, sum.rate_num, sum.rate_den,
      sum.critical_failures, sum.warnings, sum.status>>

\* C23: the summary printed for a log and the summary of the same entries
\* logged in another order agree on total, passed, failed, success rate,
\* critical and warning counts and verdict.  The orders compared are those
\* reached by exchanging two neighbours; every log is reachable, so the
\* agreement carries over to every permutation.
C23_OrderIndependence ==
    SummaryCurrent
        => \A i \in 1..(Len(test_results) - 1) :
               LET other == Replay(SwapAt(test_results, i))
               IN Metrics(SummaryOf(other.test_results, other.passed, other.failed))
                    = Metrics(summary)

\* a summarised log whose last two entries are a failed CRITICAL entry and a
\* passed entry: exchanging them changes the log and the issue order only
C23_Witness ==
    /\ Len(test_results) >= 3
    /\ IsCriticalFailure(test_results[Len(test_results) - 1])
    /\ test_results[Len(test_results)].success
    /\ SwapAt(test_results, Len(test_results) - 1) # test_results
    /\ summary = SummaryOf(test_results, passed, failed)
    /\ summary.status = "NOT READY (Critical Issues)"

(***************************************************************************)
(* Properties of a tool call                                               *)
(***************************************************************************)
\* the text of the first content item, if the exchange delivered one
HasPayloadText ==
    /\ "result" \in DOMAIN exchange.body
    /\ "content" \in DOMAIN exchange.body.result
    /\ exchange.body.result.content # <<>>
    /\ "text" \in DOMAIN exchange.body.result.content[1]

PayloadText == exchange.body.result.content[1].text

\* a timeout, a connection failure, a non-success status, a response without
\* result/content, or a payload that is not valid JSON
FailedExchange ==
    \/ exchange.transport \in {"timeout", "connection_error"}
    \/ exchange.status # 200
    \/ "not_json" \in DOMAIN exchange.body
    \/ ~("result" \in DOMAIN exchange.body /\ "content" \in DOMAIN exchange.body.result)
    \/ HasPayloadText /\ ~IsJson(PayloadText)

\* C11: every failed exchange makes call_mcp_tool return a mapping with the
\* key "error", and after a timeout the calling case has logged a failed
\* outcome and has not raised.
C11_FailuresAreValues ==
    /\ (pc # "call" /\ FailedExchange) => HasKey(tool_result, "error")
    /\ (pc \notin {"call", "handle"} /\ exchange.transport = "timeout")
         => /\ pc = "handled"
            /\ Len(test_results) = 1
            /\ ~test_results[1].success

\* C12: a payload text holding "Error" makes call_mcp_tool return an error
\* result, never the parsed payload.
C12_ErrorMarker ==
    (pc # "call" /\ HasPayloadText /\ Contains(ErrorMarker, PayloadText))
        => /\ HasKey(tool_result, "error")
           /\ tool_result \notin PayloadValues

\* an error result for a well-formed payload listing the symbol ParseError
C12_Witness ==
    /\ pc = "handled"
    /\ HasPayloadText
    /\ IsJson(PayloadText)
    /\ Contains(ErrorMarker, PayloadText)
    /\ \E i \in 1..Len(JsonLoads(PayloadText).symbols) :
           Contains(ErrorMarker, JsonLoads(PayloadText).symbols[i].name)
    /\ HasKey(tool_result, "error")

\* an edge of the returned subgraph whose source and target are ids of
\* returned nodes
GraphNodes == GetOr(tool_result, "nodes", <<>>)

GraphEdges == GetOr(tool_result, "edges", <<>>)

IsNodeId(x) == \E i \in 1..Len(GraphNodes) : GraphNodes[i].id = x

EdgeValid(e) ==
    /\ "source" \in DOMAIN e /\ IsNodeId(e.source)
    /\ "target" \in DOMAIN e /\ IsNodeId(e.target)

\* C15: the subgraph case reports as valid exactly the edges with both ends
\* among the returned nodes, fewer than all edges when one end is missing,
\* and fails when no edge is valid.
C15_EdgeValidity ==
    (pc = "handled" /\ caller = "core_graph" /\ ~HasKey(tool_result, "error"))
        => LET nums == test_results[1].details.nums
           IN /\ nums[2] = Cardinality({i \in 1..Len(GraphEdges) : EdgeValid(GraphEdges[i])})
              /\ nums[3] = Len(GraphEdges)
              /\ (\E i \in 1..Len(GraphEdges) : ~EdgeValid(GraphEdges[i]))
                   => nums[2] < nums[3]
              /\ nums[2] = 0 => ~test_results[1].success

\* a subgraph with Config among two nodes whose only edge leaves the node
\* set: no valid edge of one, and the case fails
C15_Witness ==
    /\ pc = "handled"
    /\ caller = "core_graph"
    /\ Len(GraphNodes) = 2
    /\ Len(GraphEdges) = 1
    /\ ~EdgeValid(GraphEdges[1])
    /\ test_results[1].details.nums[2] = 0
    /\ ~test_results[1].success

\* C22 as stated: a case whose backend call returned an error result logs a
\* failed outcome.
C22_ErrorsSurface ==
    (pc = "handled" /\ HasKey(tool_result, "error"))
        => /\ Len(test_results) = 1
           /\ ~test_results[1].success

\* a reported reference whose line number is a line of its file, that line
\* holding the name
RefInBounds(ref) ==
    /\ "file" \in DOMAIN ref
    /\ "line" \in DOMAIN ref
    /\ LET file == FileAt(project, relpath(ref.file))
           lines == SplitLines(file.content)
       IN /\ file.exists
          /\ 1 <= ref.line
          /\ ref.line <= Len(lines)
          /\ Contains(Name_load_config_as_toml, lines[ref.line])

\* C26 as stated: the reference case counts as verified exactly the
\* references in bounds, and passes exactly when there is a reference and
\* all are in bounds.
C26_ReferenceBounds ==
    (pc = "handled" /\ caller = "core_ref" /\ ~HasKey(tool_result, "error")
       /\ HasKey(tool_result, "references"))
        => LET references == tool_result.references
               in_bounds == {i \in 1..Len(references) : RefInBounds(references[i])}
           IN /\ test_results[1].details.nums[1] = Cardinality(in_bounds)
              /\ test_results[1].success
                   <=> (Len(references) > 0 /\ Cardinality(in_bounds) = Len(references))

(***************************************************************************)
(* Properties of the skeleton metrics                                      *)
(***************************************************************************)
\* C14: every rate of the skeleton aggregation has a value: the compression
\* ratio of each tested file, 0 for an original of no lines, and the success
\* and tree-sitter percentages of the language summary, 0 for a language
\* without results.
C14_MetricsTotal ==
    /\ \A i \in 1..Len(sk_results) :
           sk_results[i].success
               => /\ sk_results[i].quality.compression_ratio.den > 0
                  /\ sk_results[i].quality.original_lines = 0
                       => sk_results[i].quality.compression_ratio.num = 0
    /\ (pc = "sk_done")
           => /\ sk_summary # SummaryRaised
              /\ sk_summary.success_pct.den > 0
              /\ sk_summary.tree_sitter_pct.den > 0
              /\ Len(sk_results) = 0
                   => sk_summary.success_pct.num = 0 /\ sk_summary.tree_sitter_pct.num = 0

\* C20: for every tested file with a skeleton and every tracked element kind,
\* preservation is found / max(expected, 1) * 100: defined, found * 100 when
\* nothing was expected, above 100 when more was found than expected, and
\* the file's result is a success, not an error.
C20_PreservationFloor ==
    \A i \in 1..Len(sk_results) :
        sk_results[i].success
            => /\ "error" \notin DOMAIN sk_results[i].quality
               /\ \A key \in TrackedElements(sk_language) :
                      LET found_count == sk_results[i].quality.elements[key]
                          expected_count == sk_results[i].original_analysis[key]
                          p == sk_results[i].quality.preservation[key]
                      IN /\ p.den > 0
                         /\ p.num * Max(expected_count, 1) = found_count * 100 * p.den
                         /\ expected_count = 0 => p.num = found_count * 100 * p.den
                         /\ (found_count > expected_count /\ expected_count >= 1)
                              => p.num > 100 * p.den

\* one file whose skeleton shows elements of a kind the original has none
\* of, and one whose skeleton shows more than the original has
C20_Witness ==
    /\ \E i \in 1..Len(sk_results) :
           /\ sk_results[i].success
           /\ \E key \in TrackedElements(sk_language) :
                  /\ sk_results[i].original_analysis[key] = 0
                  /\ sk_results[i].quality.elements[key] = 2
                  /\ sk_results[i].quality.preservation[key] = Ratio(200, 1)
    /\ \E i \in 1..Len(sk_results) :
           /\ sk_results[i].success
           /\ \E key \in TrackedElements(sk_language) :
                  /\ sk_results[i].original_analysis[key] >= 1
                  /\ sk_results[i].quality.elements[key]
                       > sk_results[i].original_analysis[key]

(***************************************************************************)
(* Properties of the order service                                         *)
(***************************************************************************)
\* C29 as stated: every change of an order's status made by an operation of
\* the service is a transition of the valid_transitions table; an order that
\* is DELIVERED or CANCELLED, having no transition, keeps its status.
C29_StatusProtocol ==
    [][\A i \in 1..Len(orders.repo) :
           orders'.repo[i].status # orders.repo[i].status
             => orders'.repo[i].status \in valid_transitions(orders.repo[i].status)]_vars

(***************************************************************************)
(* Properties of the tester's initialization                               *)
(***************************************************************************)
\* initialize_mcp has returned
Returned == tester.at = "idle" /\ tester.ret # "none"

\* C30: a call of initialize_mcp sends at most three requests, with the
\* timeouts 20, 60, 120 in that order, and is over after the third; every
\* request but the last of a call was answered by a timeout or a status
\* other than 200; the call returns True exactly when a request was answered
\* with 200 or the tester was initialized before; an initialized tester
\* stays initialized, sends no further request, and its initialize_mcp
\* returns True.
C30_BoundedRetry ==
    /\ [](/\ Len(tester.replies) <= 3
          /\ tester.used = SubSeq(timeouts, 1, Len(tester.replies))
          /\ tester.at = "attempt" => Len(tester.replies) < 3
          /\ \A i \in 1..(Len(tester.replies) - 1) :
                 tester.replies[i] \in {"500", "timeout"}
          /\ Returned
               => (tester.ret = "True"
                     <=> \/ \E i \in 1..Len(tester.replies) : tester.replies[i] = "200"
                         \/ tester.replies = <<>> /\ tester.initialized))
    /\ [][tester.initialized
            => /\ tester'.initialized
               /\ tester'.replies \in {tester.replies, <<>>}
               /\ tester'.at = "idle"
               /\ (tester'.calls > tester.calls /\ tester'.caller = "main")
                    => tester'.ret = "True"]_vars

\* a call that returned True on its third request after a timeout and a
\* status 500
C30_Witness ==
    /\ Returned
    /\ tester.replies = <<"timeout", "500", "200">>
    /\ tester.used = timeouts
    /\ tester.ret = "True"
    /\ tester.initialized

====
